---- MODULE Spec2Model ----
(***************************************************************************)
(* MySQLMate (src/index.js, lines 1-538): the retry / operation-tracking / *)
(* graceful-shutdown layer in front of a mysql2 connection pool.           *)
(*                                                                         *)
(* Every async method is modelled as a state machine whose positions are   *)
(* its awaits.  One action = "the awaited promise settles and the          *)
(* continuation runs up to the next await", which is the atomic unit of    *)
(* the single-threaded event loop.  The callers are the clients in Procs;  *)
(* each has at most one top-level call in flight.                          *)
(***************************************************************************)
EXTENDS Integers, Sequences, FiniteSets, TLC

(* ------------------------------ bounds -------------------------------- *)
\* total number of top-level calls made by all clients together
MaxCalls == 2
\* largest maxRetries (instance setting or per-call option) that is tried
MaxRetriesBound == 2
\* longest batch handed to multiQuery
MaxBatch == 2
\* largest gracefulShutdown timeout, in poll intervals
MaxTimeoutPolls == 1
\* the maxRetries the instance is constructed with (config.maxRetries)
ConfiguredMaxRetries == 1
\* longest sql text, in lexical pieces, among those tried exhaustively
MaxTokens == 3
\* the pool's connectionLimit
ConnectionLimit == 3
\* how far below zero activeConnections is followed
MaxBelowZero == 3

\* the concurrent callers
Procs == {"a", "b"}

\* process.on(signal, gracefulShutdown): the signals, and the runs of the
\* handler, one for each signal that arrives
Signals == {"SIGTERM", "SIGINT", "SIGHUP"}
Handlers == {"h1", "h2"}
Callers == Procs \cup Handlers

(* ------------------------- program constants -------------------------- *)
\* gracefulShutdown: await this.#sleep(100)
PollIntervalMs == 100

\* retryConfig.retryableErrors
retryableErrors == {"ECONNRESET", "PROTOCOL_CONNECTION_LOST", "ETIMEDOUT"}

(* ------------------------------ values -------------------------------- *)
Absent == "absent"

\* An error object.  msg is the set of retryable codes that occur as a
\* substring of error.message; at tells the objects of different attempts apart.
Err(type, code, msg, at) == [type |-> type, code |-> code, msg |-> msg, at |-> at]
NoError == Err("undefined", "none", {}, 0)

\* what an awaited call gave: nothing yet, a value, or a thrown error
NoResult == [status |-> "none", err |-> NoError, val |-> <<>>]
Returned(v) == [status |-> "ok", err |-> NoError, val |-> v]
Threw(e) == [status |-> "threw", err |-> e, val |-> <<>>]

\* the errors pool.execute may reject with: retryable by code, retryable by
\* message only, and not retryable
ExecErrorKinds ==
    { [code |-> "ECONNRESET", msg |-> {}],
      [code |-> "ER_LOCK_WAIT", msg |-> {"ETIMEDOUT"}],
      [code |-> "ER_PARSE_ERROR", msg |-> {}] }
ExecError(kind, attempt) == Err("pool.execute", kind.code, kind.msg, attempt)

RECURSIVE Pow(_, _)
\* Math.pow(base, exponent) for the whole exponents of the retry loop
Pow(base, exponent) == IF exponent = 0 THEN 1 ELSE base * Pow(base, exponent - 1)

(* --------------------------- _validateQuery ---------------------------- *)
\* A sql argument is either not a string, or a string seen as its sequence of
\* lexical pieces: "ws" a run of whitespace, ";" "--" "/*" themselves, the
\* keywords in any letter case, and "w" any other run of characters.
Keywords == {"drop", "delete", "truncate", "alter"}

\* faulty variant: the patterns without their i flag
Lower_AsWritten(tok) == tok

\* the i flag of the patterns: a piece is matched whatever its letter case
Lower(tok) ==
    CASE tok \in {"DROP", "Drop"} -> "drop"
      [] tok \in {"DELETE", "Delete"} -> "delete"
      [] tok \in {"TRUNCATE", "Truncate"} -> "truncate"
      [] tok \in {"ALTER", "Alter"} -> "alter"
      [] tok \in {"UNION", "Union"} -> "union"
      [] tok \in {"SELECT", "Select"} -> "select"
      [] OTHER -> tok
Str(toks) == [isString |-> TRUE, toks |-> toks]
NotAString == [isString |-> FALSE, toks |-> <<>>]

\* sql.trim().length === 0
TrimmedEmpty(toks) == \A i \in 1..Len(toks) : toks[i] = "ws"

\* /;\s*(drop|delete|truncate|alter)\s+/i
MatchesStatement(toks) ==
    \E i \in 1..Len(toks) : \E k \in (i + 1)..(Len(toks) - 1) :
        /\ toks[i] = ";"
        /\ \A j \in (i + 1)..(k - 1) : toks[j] = "ws"
        /\ Lower(toks[k]) \in Keywords
        /\ toks[k + 1] = "ws"

\* /union\s+select/i
MatchesUnion(toks) ==
    \E i \in 1..(Len(toks) - 2) :
        /\ Lower(toks[i]) = "union"
        /\ toks[i + 1] = "ws"
        /\ Lower(toks[i + 2]) = "select"

\* /--/ and /\/\*/
MatchesComment(toks) == \E i \in 1..Len(toks) : toks[i] \in {"--", "/*"}

\* dangerousPatterns.some(pattern => pattern.test(sql))
Dangerous(toks) == MatchesStatement(toks) \/ MatchesUnion(toks) \/ MatchesComment(toks)

\* A params argument: what JavaScript makes of it in `params && !Array.isArray(params)`
ParamKinds == {"undefined", "array", "object", "zero", "null"}
ParamValues == ParamKinds \cup {"string", "number", "emptyString", "false"}
Truthy(params) == params \in {"array", "object", "string", "number"}
IsArray(params) == params = "array"

ValidationError(which) == Err("validation", which, {}, 0)

\* _validateQuery: the error it throws, or NoError when it returns
ValidateQuery(sql, params) ==
    IF ~sql.isString \/ TrimmedEmpty(sql.toks)
    THEN ValidationError("SQL query must be a non-empty string")
    ELSE IF Truthy(params) /\ ~IsArray(params)
    THEN ValidationError("Query parameters must be an array")
    ELSE IF Dangerous(sql.toks)
    THEN ValidationError("Potentially dangerous SQL query detected")
    ELSE NoError

\* the sql texts the clients pass
SqlInputs ==
    { Str(<<"select", "ws", "w">>),
      Str(<<"ws">>),
      Str(<<"select", "ws", "w", ";", "ws", "DROP", "ws", "w">>),
      NotAString }

\* the sql texts of up to MaxTokens pieces, with those above
Pieces == {"ws", ";", "--", "/*", "w", "DROP", "Delete", "truncate", "Union", "SELECT"}
SqlTexts ==
    {Str(toks) : toks \in UNION {[1..n -> Pieces] : n \in 0..MaxTokens}} \cup SqlInputs

\* the arguments of a call of _validateQuery; given is false where no such
\* call is made
ValidateArgs == [given : {TRUE}, sql : SqlTexts, params : ParamValues]
NoArgs == [given |-> FALSE, sql |-> NotAString, params |-> "undefined"]

\* query(sql, params = [], ...): the default applies to undefined only
DefaultParams(params) == IF params = "undefined" THEN "array" ELSE params

(* ------------------------------- state -------------------------------- *)
VARIABLES
    isShuttingDown,    \* this.isShuttingDown
    activeOperations,  \* this.activeOperations, a set of operation ids
    metrics,           \* this.metrics
    retryConfig,       \* this.retryConfig
    pool,              \* the mysql2 pool: calls of end() and whether it is closed
    db,                \* the database behind the pool: the migrations table
    elapsed,           \* Date.now() - startWait of the drain, in ms
    pc,                \* where each client's call is suspended
    qf,                \* query(): the locals of each client's query call
    mf,                \* multiQuery(): the locals of each client's call
    tf,                \* transaction() / runMigration(): locals and what was called
    gf,                \* gracefulShutdown(): the locals of each client's call
    out,               \* what each client's top-level call settled with
    hist,              \* what has happened so far (not program state)
    nCalls,            \* top-level calls made so far
    op                 \* the method each client called last

vars ==
    <<isShuttingDown, activeOperations, metrics, retryConfig, pool, db, elapsed,
      pc, qf, mf, tf, gf, out, hist, nCalls, op>>

\* client p, free to call, calls `method`
\* process.exit(0) has not been called
Running == \A h \in Handlers : pc[h] # "exited"

\* the call of p stands at the await `label`, the process being alive
At(p, label) == Running /\ pc[p] = label

Called(p, method) ==
    /\ At(p, "idle")
    /\ nCalls < MaxCalls
    /\ nCalls' = nCalls + 1
    /\ op' = [op EXCEPT ![p] = method]

\* faulty variant: no Math.random() part, so that the calls of one kind made
\* within a millisecond get the same id
OperationId_SameMillisecond(kind, callNo, index) == <<kind, 0, index>>

\* operation ids, `${kind}-${Date.now()}-${Math.random()}`: a fresh one for
\* every call.  callNo is the number of the client's call, index tells the
\* query() calls of one multiQuery() apart.
OperationId(kind, callNo, index) == <<kind, callNo, index>>
NoId == OperationId("none", 0, 0)

ShuttingDownError(what) == Err("shutdown", what, {}, 0)

\* the locals of query().  What the call did so far: admitted tells that it
\* passed the gate and the validation, execs counts its
\* pool.execute calls, sleeps its backoff waits, raised is the error of the
\* latest failed attempt, allRetryable whether every failure was retryable.
IdleQuery ==
    [active |-> FALSE, admitted |-> FALSE, id |-> NoId, caller |-> "top", maxRetries |-> 0, skipRetry |-> FALSE,
     paramsNull |-> FALSE,
     attempt |-> 0, lastError |-> NoError, refused |-> FALSE,
     execs |-> 0, sleeps |-> 0, delays |-> <<>>, raised |-> NoError,
     allRetryable |-> TRUE, result |-> NoResult]

\* the locals of multiQuery(); pending is the settled `await this.query(...)`,
\* settled records how each query() of the batch ended, in the order of the calls
IdleMulti ==
    [active |-> FALSE, admitted |-> FALSE, id |-> NoId, callNo |-> 0,
     queries |-> <<>>, index |-> 0, results |-> <<>>, errors |-> <<>>,
     pending |-> NoResult, settled |-> <<>>]

\* the locals of transaction(); the counters record the calls on the connection
IdleTx ==
    [kind |-> "none", id |-> NoId, migrationName |-> "none", refused |-> FALSE,
     caught |-> NoError, result |-> NoResult, pendingRows |-> {}, ranSql |-> FALSE,
     acquired |-> 0, begins |-> 0, uows |-> 0, commits |-> 0, rollbacks |-> 0,
     releases |-> 0, sqlRuns |-> 0, inserts |-> 0, rollbackError |-> NoError,
     fresh |-> FALSE, seenDone |-> FALSE, overlapped |-> FALSE]

\* the locals of gracefulShutdown()
IdleShutdown == [first |-> FALSE, timeout |-> 0, wakeAt |-> 0, sleeps |-> 0, ends |-> 0]

\* the migration texts handed to runMigration, and their md5 hex digests
MigrationSqls == {"CREATE TABLE t1 (id INT)", "ALTER TABLE t1 ADD c INT"}
Md5Hex(migrationSql) ==
    IF migrationSql = "CREATE TABLE t1 (id INT)"
    THEN "bea50b6ce1eab8e80ea8665457b1d0bb"
    ELSE "43870c6f559281bfa18f01d5fcf61bcb"
MigrationNames == {Md5Hex(s) : s \in MigrationSqls}

\* the defaults of the constructor: retryDelay = 1000, backoffMultiplier = 2
RetryDelayMs == 1000
BackoffMultiplier == 2

\* the retry settings the instances of the model are built with
DefaultConfig ==
    [maxRetries |-> ConfiguredMaxRetries, retryDelay |-> RetryDelayMs,
     backoffMultiplier |-> BackoffMultiplier]

\* new MySQLMate(config): the state the constructor leaves
Constructed(config, args) ==
    /\ isShuttingDown = FALSE
    /\ activeOperations = {}
    /\ metrics = [totalQueries |-> 0, failedQueries |-> 0, avgQueryTime |-> 0,
                  activeConnections |-> 0, totalConnections |-> 0]
    /\ retryConfig = [maxRetries |-> config.maxRetries, retryDelay |-> config.retryDelay,
                      backoffMultiplier |-> config.backoffMultiplier,
                      retryableErrors |-> retryableErrors]
    /\ pool = [ends |-> 0, closed |-> FALSE, made |-> {}, inUse |-> {}]
    /\ db = [ledger |-> [n \in MigrationNames |-> 0], applied |-> [n \in MigrationNames |-> 0]]
    /\ elapsed = 0
    /\ pc = [p \in Callers |-> "idle"]
    /\ qf = [p \in Procs |-> IdleQuery]
    /\ mf = [p \in Procs |-> IdleMulti]
    /\ tf = [p \in Procs |-> IdleTx]
    /\ gf = [p \in Callers |-> IdleShutdown]
    /\ out = [p \in Callers |-> NoResult]
    /\ hist = [drains |-> 0, shutdownEnds |-> 0, executedTrue |-> {}, args |-> args]
    /\ nCalls = 0
    /\ op = [p \in Callers |-> "none"]

\* new MySQLMate(config)
NewInstance(config) == Constructed(config, NoArgs)

Init == NewInstance(DefaultConfig)

(* ------------------------- settling an await -------------------------- *)
\* Who awaits a query() call: a client ("top"), multiQuery or healthcheck.
\* mframe is the multiQuery frame the continuation works on.
\* id is the operation id the query() call makes for itself.
Ctx(caller, mframe, id) == [caller |-> caller, mframe |-> mframe, id |-> id]
CtxOf(p) == Ctx(qf[p].caller, mf[p], qf[p].id)

\* getMetrics(): a copy of the metrics `m` with the pool's connection counts
GetMetrics(m) ==
    [totalQueries |-> m.totalQueries, failedQueries |-> m.failedQueries,
     avgQueryTime |-> m.avgQueryTime, activeConnections |-> m.activeConnections,
     totalConnections |-> m.totalConnections, poolInfo |-> "poolInfo"]

\* faulty variant: healthcheck() without its catch
HealthStatus_Throws(result, m) ==
    IF result.status = "ok"
    THEN Returned([status |-> "healthy", responseTime |-> "Date.now() - start",
                   error |-> NoError, metrics |-> GetMetrics(m)])
    ELSE Threw(result.err)

\* healthcheck(): what its try / catch makes of the settled query
HealthStatus(result, m) ==
    IF result.status = "ok"
    THEN Returned([status |-> "healthy", responseTime |-> "Date.now() - start",
                   error |-> NoError, metrics |-> GetMetrics(m)])
    ELSE Returned([status |-> "unhealthy", responseTime |-> Absent,
                   error |-> result.err, metrics |-> GetMetrics(m)])

\* the promise of query() settles with `result`: the awaiting code resumes
Deliver(p, ctx, result) ==
    CASE ctx.caller = "multiQuery" ->
           /\ mf' = [mf EXCEPT ![p] =
                       [ctx.mframe EXCEPT !.pending = result,
                                          !.settled = Append(@, result.status)]]
           /\ pc' = [pc EXCEPT ![p] = "mq_next"]
           /\ out' = out
      [] ctx.caller = "healthcheck" ->
           /\ mf' = mf
           /\ pc' = [pc EXCEPT ![p] = "returned"]
           /\ out' = [out EXCEPT ![p] = HealthStatus(result, metrics')]
      [] OTHER ->
           /\ mf' = mf
           /\ pc' = [pc EXCEPT ![p] = "returned"]
           /\ out' = [out EXCEPT ![p] = result]

\* faulty variant: multiQuery() goes on with its loop without awaiting the
\* query() it has called, which stays in flight
Suspend_NotAwaited(p, ctx, where) ==
    IF ctx.caller = "multiQuery"
    THEN /\ mf' = [mf EXCEPT ![p] = [ctx.mframe EXCEPT !.pending = Returned(<<>>)]]
         /\ pc' = [pc EXCEPT ![p] = "mq_next"]
         /\ out' = out
    ELSE /\ mf' = [mf EXCEPT ![p] = ctx.mframe]
         /\ pc' = [pc EXCEPT ![p] = where]
         /\ out' = out

\* query() stays suspended at `where`
Suspend(p, ctx, where) ==
    /\ mf' = [mf EXCEPT ![p] = ctx.mframe]
    /\ pc' = [pc EXCEPT ![p] = where]
    /\ out' = out

(* ------------------------------ query() ------------------------------- *)
\* the options argument: maxRetries may be left out
Options ==
    [hasMaxRetries : {FALSE}, maxRetries : {0}, skipRetry : BOOLEAN]
        \cup [hasMaxRetries : {TRUE}, maxRetries : (-1)..MaxRetriesBound, skipRetry : BOOLEAN]
NoOptions == [hasMaxRetries |-> FALSE, maxRetries |-> 0, skipRetry |-> FALSE]

\* const { maxRetries = this.retryConfig.maxRetries, skipRetry = false } = options
EffectiveMaxRetries(options) ==
    IF options.hasMaxRetries THEN options.maxRetries ELSE retryConfig.maxRetries

\* retryableErrors.some(code => error.code === code || error.message.includes(code))
IsRetryable(error) ==
    \E code \in retryConfig.retryableErrors : error.code = code \/ code \in error.msg

\* faulty variants of the give-up test: one attempt short, and blind to the
\* class of the error
GivesUp_OneShort(skipRetry, error, attempt, maxRetries) ==
    skipRetry \/ ~IsRetryable(error) \/ attempt + 1 >= maxRetries

GivesUp_AnyError(skipRetry, error, attempt, maxRetries) ==
    skipRetry \/ attempt = maxRetries

\* faulty variant: the exponent counted from the attempt to come
BackoffDelay_NextAttempt(config, attempt) ==
    config.retryDelay * Pow(config.backoffMultiplier, attempt + 1)

\* const delay = retryDelay * Math.pow(backoffMultiplier, attempt)
BackoffDelay(config, attempt) ==
    config.retryDelay * Pow(config.backoffMultiplier, attempt)

\* faulty variant: the give-up test without skipRetry
GivesUp_IgnoresSkipRetry(skipRetry, error, attempt, maxRetries) ==
    ~IsRetryable(error) \/ attempt = maxRetries

\* if (skipRetry || !isRetryable || attempt === maxRetries)
GivesUp(skipRetry, error, attempt, maxRetries) ==
    skipRetry \/ ~IsRetryable(error) \/ attempt = maxRetries

\* for (...; attempt <= maxRetries; ...)
LoopContinues(attempt, maxRetries) == attempt <= maxRetries

\* faulty variant: query() leaves its id behind
QueryFinally_Keeps(ops, operationId) == ops

\* finally { this.activeOperations.delete(operationId) }
QueryFinally(ops, operationId) == ops \ {operationId}

\* query() leaves through its finally block with `result`
QueryExit(p, frame, result, ctx, ops, m) ==
    /\ activeOperations' = QueryFinally(ops, frame.id)
    /\ metrics' = m
    /\ qf' = [qf EXCEPT ![p] = [frame EXCEPT !.active = FALSE, !.result = result]]
    /\ Deliver(p, ctx, result)

\* the head of the retry loop: the next pool.execute, or `throw lastError`
QueryAttempt(p, frame, ctx, ops, m) ==
    IF LoopContinues(frame.attempt, frame.maxRetries)
    THEN /\ metrics' = [m EXCEPT !.totalQueries = @ + 1]
         /\ qf' = [qf EXCEPT ![p] =
                     [frame EXCEPT !.execs = @ + 1, !.refused = pool.closed]]
         /\ activeOperations' = ops
         /\ Suspend(p, ctx, "q_exec")
    ELSE QueryExit(p, frame, Threw(frame.lastError), ctx, ops, m)

\* faulty variant: the rejected call leaves its id in activeOperations
QueryReject_Tracked(p, error, ctx, ops) ==
    /\ activeOperations' = ops \cup {ctx.id}
    /\ metrics' = metrics
    /\ qf' = [qf EXCEPT ![p] =
                [IdleQuery EXCEPT !.caller = ctx.caller, !.result = Threw(error)]]
    /\ Deliver(p, ctx, Threw(error))

\* query() fails before its try block: nothing of the instance changes
QueryReject(p, error, ctx, ops) ==
    /\ activeOperations' = ops
    /\ metrics' = metrics
    /\ qf' = [qf EXCEPT ![p] =
                [IdleQuery EXCEPT !.caller = ctx.caller, !.result = Threw(error)]]
    /\ Deliver(p, ctx, Threw(error))

\* faulty variant: query() without its gate
QueryGate_Open == FALSE

\* faulty variant: transaction() without its own gate
TransactionGate_Open == FALSE

\* if (this.isShuttingDown) throw ..., the first statement of query, multiQuery,
\* runMigration, getConnection and transaction
QueryGate == isShuttingDown
MultiQueryGate == isShuttingDown
MigrationGate == isShuttingDown
TransactionGate == isShuttingDown

\* faulty variant: getConnection() without its gate
ConnectionGate_Open == FALSE

\* if (this.isShuttingDown) throw ..., the first statement of getConnection
ConnectionGate == isShuttingDown

\* this.query(sql, params, options), called while activeOperations is `ops`
QueryCall(p, sql, params, options, ctx, ops) ==
    IF QueryGate
    THEN QueryReject(p, ShuttingDownError("queries"), ctx, ops)
    ELSE IF ValidateQuery(sql, params) # NoError
    THEN QueryReject(p, ValidateQuery(sql, params), ctx, ops)
    ELSE QueryAttempt(p,
            [IdleQuery EXCEPT !.active = TRUE, !.admitted = TRUE, !.id = ctx.id,
                              !.caller = ctx.caller,
                              !.maxRetries = EffectiveMaxRetries(options),
                              !.paramsNull = params = "null",
                              !.skipRetry = options.skipRetry],
            ctx, ops \cup {ctx.id}, metrics)

\* a client calls query() with params of one of `kinds`
QueryWith(p, kinds) ==
    /\ Called(p, "query")
    /\ \E sql \in SqlInputs, params \in kinds, options \in Options :
         QueryCall(p, sql, DefaultParams(params), options,
                   Ctx("top", mf[p], OperationId("query", nCalls + 1, 0)),
                   activeOperations)
    /\ UNCHANGED <<isShuttingDown, retryConfig, pool, db, elapsed, tf, gf, hist>>

\* a client calls query()
Query(p) == QueryWith(p, ParamKinds)

\* db._validateQuery(sql, params) called on its own, with one of `inputs`
ValidateQueryOf(p, inputs) ==
    /\ Called(p, "_validateQuery")
    /\ \E input \in inputs :
         /\ hist' = [hist EXCEPT !.args = input]
         /\ out' = [out EXCEPT ![p] =
                      IF ValidateQuery(input.sql, input.params) = NoError
                      THEN Returned("undefined")
                      ELSE Threw(ValidateQuery(input.sql, input.params))]
    /\ pc' = [pc EXCEPT ![p] = "returned"]
    /\ UNCHANGED <<isShuttingDown, activeOperations, metrics, retryConfig, pool, db,
                   elapsed, qf, mf, tf, gf>>

\* a client calls _validateQuery itself
ValidateQueryCalled(p) == ValidateQueryOf(p, ValidateArgs)

\* the value pool.execute resolves with at an attempt
Rows(attempt) == [rows |-> "rows", at |-> attempt]

\* faulty variant: failedQueries counts the calls that failed, not the attempts
CountFailure_PerCall(m, givesUp) ==
    IF givesUp THEN [m EXCEPT !.failedQueries = @ + 1] ELSE m

\* this.metrics.failedQueries++, the first statement of the catch block,
\* whether or not the loop gives up
CountFailure(m, givesUp) == [m EXCEPT !.failedQueries = @ + 1]

\* `paramCount: params.length`, evaluated for a log line, throws a TypeError when params is null
LengthOfNull(attempt) == Err("TypeError", "none", {}, attempt)

\* the try block throws `error`: the catch block. When it gives up, the
\* error log evaluates `params: params.length` before `throw error`, which
\* throws a TypeError of its own when params is null
QueryCatch(p, error, before) ==
    LET frame == [qf[p] EXCEPT !.lastError = error, !.raised = error,
                               !.allRetryable = @ /\ IsRetryable(error)]
        m == CountFailure(before, GivesUp(frame.skipRetry, error, frame.attempt,
                                          frame.maxRetries))
    IN  IF GivesUp(frame.skipRetry, error, frame.attempt, frame.maxRetries)
        THEN QueryExit(p, frame,
                       Threw(IF frame.paramsNull THEN LengthOfNull(frame.attempt) ELSE error),
                       CtxOf(p), activeOperations, m)
        ELSE /\ qf' = [qf EXCEPT ![p] =
                       [frame EXCEPT !.sleeps = @ + 1,
                                     !.delays = Append(@, BackoffDelay(retryConfig, frame.attempt))]]
             /\ metrics' = m
             /\ activeOperations' = activeOperations
             /\ Suspend(p, CtxOf(p), "q_sleep")

\* Date.now() - start, in ms: none that the clock shows, or one that can be
\* halved as often as there are calls
Durations == {0, Pow(2, MaxCalls)}

\* faulty variant: the mean forgets what it was
UpdateMetrics_Latest(m, duration) == [m EXCEPT !.avgQueryTime = duration]

\* _updateMetrics(duration)
UpdateMetrics(m, duration) ==
    [m EXCEPT !.avgQueryTime = IF @ = 0 THEN duration ELSE (@ + duration) \div 2]

\* pool.execute resolves after one of `durations`: metrics, log, `return
\* result`; or the log line throws into the catch block
QueryExecuteOkWith(p, durations) ==
    /\ At(p, "q_exec")
    /\ ~qf[p].refused
    /\ \E duration \in durations :
         IF qf[p].paramsNull
         THEN QueryCatch(p, LengthOfNull(qf[p].attempt), UpdateMetrics(metrics, duration))
         ELSE QueryExit(p, qf[p], Returned(Rows(qf[p].attempt)), CtxOf(p),
                        activeOperations, UpdateMetrics(metrics, duration))
    /\ UNCHANGED <<isShuttingDown, retryConfig, pool, db, elapsed, tf, gf, hist, nCalls, op>>

\* pool.execute resolves
QueryExecuteOk(p) == QueryExecuteOkWith(p, Durations)

\* a pool that has been ended refuses: Error('Pool is closed.')
PoolClosedKind == [code |-> "none", msg |-> {}]

QueryExecuteFails(p) ==
    /\ At(p, "q_exec")
    /\ \E kind \in (IF qf[p].refused THEN {PoolClosedKind} ELSE ExecErrorKinds) :
         QueryCatch(p, ExecError(kind, qf[p].attempt), metrics)
    /\ UNCHANGED <<isShuttingDown, retryConfig, pool, db, elapsed, tf, gf, hist, nCalls, op>>

\* the backoff timer fires: attempt++ and the loop head
QueryBackoffDone(p) ==
    /\ At(p, "q_sleep")
    /\ QueryAttempt(p, [qf[p] EXCEPT !.attempt = @ + 1], CtxOf(p),
                    activeOperations, metrics)
    /\ UNCHANGED <<isShuttingDown, retryConfig, pool, db, elapsed, tf, gf, hist, nCalls, op>>

(* ---------------------------- multiQuery() ---------------------------- *)
\* the batches the clients pass: each entry is {sql, params}, params left out
QueryData == [sql : {Str(<<"select", "ws", "w">>), Str(<<"w", "--">>)}, params : {"undefined"}]
RECURSIVE SeqsUpTo(_, _)
SeqsUpTo(S, n) ==
    IF n = 0 THEN {<<>>}
    ELSE SeqsUpTo(S, n - 1) \cup {Append(q, x) : q \in {r \in SeqsUpTo(S, n - 1) : Len(r) = n - 1}, x \in S}
Batches == SeqsUpTo(QueryData, MaxBatch)

\* new Error(`${errors.length} of ${queries.length} queries failed`) with
\* error.results and error.errors
PartialFailure(results, errors) ==
    [status |-> "threw", err |-> Err("multiQuery", "queries failed", {}, Len(errors)),
     val |-> [results |-> results, errors |-> errors]]

\* finally { this.activeOperations.delete(operationId) }
MultiFinally(ops, operationId) == ops \ {operationId}

\* after the loop: throw the aggregate error or return results
MultiOutcome(frame) ==
    IF Len(frame.errors) > 0
    THEN PartialFailure(frame.results, frame.errors)
    ELSE Returned(frame.results)

\* the head of `for (const [index, queryData] of queries.entries())`;
\* frame.index is the next position, counted from 0
MultiIterate(p, frame, ops) ==
    IF frame.index < Len(frame.queries)
    THEN LET queryData == frame.queries[frame.index + 1]
         IN  QueryCall(p, queryData.sql, DefaultParams(queryData.params), NoOptions,
                       Ctx("multiQuery", frame,
                           OperationId("query", frame.callNo, frame.index + 1)),
                       ops)
    ELSE /\ activeOperations' = MultiFinally(ops, frame.id)
         /\ mf' = [mf EXCEPT ![p] = [frame EXCEPT !.active = FALSE]]
         /\ out' = [out EXCEPT ![p] = MultiOutcome(frame)]
         /\ pc' = [pc EXCEPT ![p] = "returned"]
         /\ UNCHANGED <<metrics, qf>>

\* a client calls multiQuery(queries) with one of `batches`; isArray tells
\* whether queries is an array
MultiQueryOf(p, batches) ==
    /\ Called(p, "multiQuery")
    /\ \E isArray \in BOOLEAN, queries \in batches :
         IF MultiQueryGate
         THEN /\ out' = [out EXCEPT ![p] = Threw(ShuttingDownError("queries"))]
              /\ pc' = [pc EXCEPT ![p] = "returned"]
              /\ UNCHANGED <<activeOperations, metrics, qf, mf>>
         ELSE IF ~isArray
         THEN /\ out' = [out EXCEPT ![p] =
                           Threw(ValidationError("Queries must be an array"))]
              /\ pc' = [pc EXCEPT ![p] = "returned"]
              /\ UNCHANGED <<activeOperations, metrics, qf, mf>>
         ELSE MultiIterate(p,
                  [IdleMulti EXCEPT !.active = TRUE, !.admitted = TRUE,
                                    !.id = OperationId("multiquery", nCalls + 1, 0),
                                    !.callNo = nCalls + 1, !.queries = queries],
                  activeOperations \cup {OperationId("multiquery", nCalls + 1, 0)})
    /\ UNCHANGED <<isShuttingDown, retryConfig, pool, db, elapsed, tf, gf, hist>>

\* a client calls multiQuery(queries)
MultiQuery(p) == MultiQueryOf(p, Batches)

\* faulty variant: the entries numbered by their place in their own list
MultiCollect_ListIndex(frame) ==
    IF frame.pending.status = "ok"
    THEN [frame EXCEPT !.results = Append(@, [index |-> Len(frame.results),
                                              result |-> frame.pending.val]),
                       !.index = @ + 1, !.pending = NoResult]
    ELSE [frame EXCEPT !.errors = Append(@, [index |-> Len(frame.errors),
                                             error |-> frame.pending.err]),
                       !.index = @ + 1, !.pending = NoResult]

\* results.push({ index, result }) or errors.push({ index, error })
MultiCollect(frame) ==
    IF frame.pending.status = "ok"
    THEN [frame EXCEPT !.results = Append(@, [index |-> frame.index, result |-> frame.pending.val]),
                       !.index = @ + 1, !.pending = NoResult]
    ELSE [frame EXCEPT !.errors = Append(@, [index |-> frame.index, error |-> frame.pending.err]),
                       !.index = @ + 1, !.pending = NoResult]

\* `await this.query(...)` has settled: collect it and go on with the loop
MultiNext(p) ==
    /\ At(p, "mq_next")
    /\ MultiIterate(p, MultiCollect(mf[p]), activeOperations)
    /\ UNCHANGED <<isShuttingDown, retryConfig, pool, db, elapsed, tf, gf, hist, nCalls, op>>

(* ------------------- getConnection() / transaction() ------------------ *)
\* errors of the calls on the pool and on a connection
ConnError(call) == Err(call, "ER_" \o call, {}, 0)

\* the transaction leaves through `finally`: release the connection, drop the id
TxFinally(ops, operationId) == ops \ {operationId}

\* faulty variant: the transaction leaves without its finally block's release
TxExit_Unreleased(p, frame, result) ==
    /\ tf' = [tf EXCEPT ![p] = frame]
    /\ activeOperations' = TxFinally(activeOperations, frame.id)
    /\ out' = [out EXCEPT ![p] = result]
    /\ pc' = [pc EXCEPT ![p] = "returned"]

TxExit(p, frame, result) ==
    /\ tf' = [tf EXCEPT ![p] = [frame EXCEPT !.releases = @ + 1]]
    /\ activeOperations' = TxFinally(activeOperations, frame.id)
    /\ out' = [out EXCEPT ![p] = result]
    /\ pc' = [pc EXCEPT ![p] = "returned"]

\* faulty variant: the catch block rethrows without rolling back
TxCatch_NoRollback(p, frame, error) ==
    TxExit(p, [frame EXCEPT !.caught = error], Threw(error))

\* catch (error) { await connection.rollback(); ...
TxCatch(p, frame, error) ==
    /\ tf' = [tf EXCEPT ![p] = [frame EXCEPT !.caught = error, !.rollbacks = @ + 1]]
    /\ pc' = [pc EXCEPT ![p] = "tx_rollback"]
    /\ UNCHANGED <<activeOperations, out>>

\* faulty variant: the connection goes back to the pool before the commit
TxCommit_ReleasesFirst(p, frame, result) ==
    /\ tf' = [tf EXCEPT ![p] =
                [frame EXCEPT !.result = result, !.releases = @ + 1, !.commits = @ + 1]]
    /\ pc' = [pc EXCEPT ![p] = "tx_commit"]
    /\ UNCHANGED <<activeOperations, out>>

\* await connection.commit() is issued with the callback's result in hand
TxCommit(p, frame, result) ==
    /\ tf' = [tf EXCEPT ![p] = [frame EXCEPT !.result = result, !.commits = @ + 1]]
    /\ pc' = [pc EXCEPT ![p] = "tx_commit"]
    /\ UNCHANGED <<activeOperations, out>>

\* runMigration calls of the same text that are in flight together
InFlightMigration(q, name) ==
    /\ tf[q].kind = "migration"
    /\ tf[q].migrationName = name
    /\ pc[q] \notin {"idle", "returned"}

\* the frame of a transaction that starts now.  fresh: no ledger row of its
\* hash is committed; seenDone: an earlier runMigration of the same text has
\* returned { executed: true }; overlapped: another one is in flight.
NewTx(p, kind, migrationSql) ==
    LET name == IF kind = "migration" THEN Md5Hex(migrationSql) ELSE "none"
    IN  [IdleTx EXCEPT !.kind = kind, !.refused = pool.closed,
                       !.id = OperationId("transaction", nCalls + 1, 0),
                       !.migrationName = name,
                       !.fresh = kind = "migration" /\ db.ledger[name] = 0,
                       !.seenDone = kind = "migration" /\ name \in hist.executedTrue,
                       !.overlapped = /\ kind = "migration"
                                      /\ \E q \in Procs \ {p} : InFlightMigration(q, name)]

\* this.transaction(callback): the gate, the id, and getConnection() with its
\* own gate up to `await this.pool.getConnection()`
TransactionCall(p, kind, migrationSql) ==
    IF TransactionGate
    THEN /\ out' = [out EXCEPT ![p] = Threw(ShuttingDownError("transactions"))]
         /\ pc' = [pc EXCEPT ![p] = "returned"]
         /\ UNCHANGED <<activeOperations, tf>>
    ELSE /\ activeOperations' = activeOperations \cup {OperationId("transaction", nCalls + 1, 0)}
         /\ tf' = [q \in Procs |->
                     IF q = p THEN NewTx(p, kind, migrationSql)
                     ELSE IF kind = "migration" /\ InFlightMigration(q, Md5Hex(migrationSql))
                     THEN [tf[q] EXCEPT !.overlapped = TRUE]
                     ELSE tf[q]]
         /\ IF ConnectionGate
            THEN /\ out' = [out EXCEPT ![p] = Threw(ShuttingDownError("connections"))]
                 /\ pc' = [pc EXCEPT ![p] = "returned"]
            ELSE /\ pc' = [pc EXCEPT ![p] = "tx_getconn"]
                 /\ out' = out

\* a client calls transaction(callback)
Transaction(p) ==
    /\ Called(p, "transaction")
    /\ TransactionCall(p, "plain", "none")
    /\ UNCHANGED <<isShuttingDown, metrics, retryConfig, pool, db, elapsed, qf, mf, gf, hist>>

\* a client calls runMigration(migrationSql)
RunMigration(p) ==
    /\ Called(p, "runMigration")
    /\ \E migrationSql \in MigrationSqls :
         IF MigrationGate
         THEN /\ out' = [out EXCEPT ![p] = Threw(ShuttingDownError("migrations"))]
              /\ pc' = [pc EXCEPT ![p] = "returned"]
              /\ UNCHANGED <<activeOperations, tf>>
         ELSE TransactionCall(p, "migration", migrationSql)
    /\ UNCHANGED <<isShuttingDown, metrics, retryConfig, pool, db, elapsed, qf, mf, gf, hist>>

\* pool.getConnection() resolves inside transaction(): beginTransaction is issued
TxConnected(p) ==
    /\ At(p, "tx_getconn")
    /\ ~tf[p].refused
    /\ tf' = [tf EXCEPT ![p].acquired = @ + 1, ![p].begins = @ + 1]
    /\ pc' = [pc EXCEPT ![p] = "tx_begin"]
    /\ UNCHANGED <<isShuttingDown, activeOperations, metrics, retryConfig, pool, db,
                   elapsed, qf, mf, gf, out, hist, nCalls, op>>

\* pool.getConnection() rejects inside transaction(): getConnection() rethrows,
\* and `const connection = await this.getConnection()` stands before the try
TxConnectFails(p) ==
    /\ At(p, "tx_getconn")
    /\ out' = [out EXCEPT ![p] = Threw(ConnError("getConnection"))]
    /\ pc' = [pc EXCEPT ![p] = "returned"]
    /\ UNCHANGED <<isShuttingDown, activeOperations, metrics, retryConfig, pool, db,
                   elapsed, qf, mf, tf, gf, hist, nCalls, op>>

\* beginTransaction resolves: callback(connection) runs up to its first await
TxBegun(p) ==
    /\ At(p, "tx_begin")
    /\ tf' = [tf EXCEPT ![p].uows = @ + 1]
    /\ pc' = [pc EXCEPT ![p] = IF tf[p].kind = "migration" THEN "mig_create" ELSE "tx_uow"]
    /\ UNCHANGED <<isShuttingDown, activeOperations, metrics, retryConfig, pool, db,
                   elapsed, qf, mf, gf, out, hist, nCalls, op>>

TxBeginFails(p) ==
    /\ At(p, "tx_begin")
    /\ TxCatch(p, tf[p], ConnError("beginTransaction"))
    /\ UNCHANGED <<isShuttingDown, metrics, retryConfig, pool, db, elapsed, qf, mf,
                   gf, hist, nCalls, op>>

\* the caller's unit of work resolves: commit is issued
TxWorkDone(p) ==
    /\ At(p, "tx_uow")
    /\ TxCommit(p, tf[p], Returned([value |-> "callback result"]))
    /\ UNCHANGED <<isShuttingDown, metrics, retryConfig, pool, db, elapsed, qf, mf,
                   gf, hist, nCalls, op>>

\* the caller's unit of work throws
TxWorkFails(p) ==
    /\ At(p, "tx_uow")
    /\ TxCatch(p, tf[p], ConnError("callback"))
    /\ UNCHANGED <<isShuttingDown, metrics, retryConfig, pool, db, elapsed, qf, mf,
                   gf, hist, nCalls, op>>

\* what a committed callback result does to the record of finished migrations
NoteExecuted(frame) ==
    IF frame.kind = "migration" /\ frame.result.val.executed
    THEN [hist EXCEPT !.executedTrue = @ \cup {frame.migrationName}]
    ELSE hist

\* COMMIT: the rows and the schema change of the transaction become visible
Committed(frame) ==
    [ledger |-> [n \in MigrationNames |->
                    db.ledger[n] + (IF n \in frame.pendingRows THEN 1 ELSE 0)],
     applied |-> [n \in MigrationNames |->
                    db.applied[n] + (IF frame.ranSql /\ n = frame.migrationName THEN 1 ELSE 0)]]

\* commit resolves: `return result`, then finally
TxCommitted(p) ==
    /\ At(p, "tx_commit")
    /\ db' = Committed(tf[p])
    /\ hist' = NoteExecuted(tf[p])
    /\ TxExit(p, [tf[p] EXCEPT !.pendingRows = {}, !.ranSql = FALSE], tf[p].result)
    /\ UNCHANGED <<isShuttingDown, metrics, retryConfig, pool, elapsed, qf, mf, gf, nCalls, op>>

TxCommitFails(p) ==
    /\ At(p, "tx_commit")
    /\ TxCatch(p, tf[p], ConnError("commit"))
    /\ UNCHANGED <<isShuttingDown, metrics, retryConfig, pool, db, elapsed, qf, mf,
                   gf, hist, nCalls, op>>

\* rollback resolves: log, `throw error`, then finally
TxRolledBack(p) ==
    /\ At(p, "tx_rollback")
    /\ TxExit(p, [tf[p] EXCEPT !.pendingRows = {}, !.ranSql = FALSE], Threw(tf[p].caught))
    /\ UNCHANGED <<isShuttingDown, metrics, retryConfig, pool, db, elapsed, qf, mf,
                   gf, hist, nCalls, op>>

\* rollback rejects inside the catch block: its error leaves the block, then finally
TxRollbackFails(p) ==
    /\ At(p, "tx_rollback")
    /\ TxExit(p, [tf[p] EXCEPT !.pendingRows = {}, !.ranSql = FALSE,
                               !.rollbackError = ConnError("rollback")],
              Threw(ConnError("rollback")))
    /\ UNCHANGED <<isShuttingDown, metrics, retryConfig, pool, db, elapsed, qf, mf,
                   gf, hist, nCalls, op>>

\* a client calls getConnection()
GetConnection(p) ==
    /\ Called(p, "getConnection")
    /\ IF ConnectionGate
       THEN /\ out' = [out EXCEPT ![p] = Threw(ShuttingDownError("connections"))]
            /\ pc' = [pc EXCEPT ![p] = "returned"]
            /\ tf' = tf
       ELSE /\ tf' = [tf EXCEPT ![p] =
                        [IdleTx EXCEPT !.kind = "getConnection", !.refused = pool.closed]]
            /\ pc' = [pc EXCEPT ![p] = "gc_get"]
            /\ out' = out
    /\ UNCHANGED <<isShuttingDown, activeOperations, metrics, retryConfig, pool, db,
                   elapsed, qf, mf, gf, hist>>

\* pool.getConnection() settles for a client's getConnection()
GetConnectionSettles(p) ==
    /\ At(p, "gc_get")
    /\ \E ok \in (IF tf[p].refused THEN {FALSE} ELSE BOOLEAN) :
         /\ out' = [out EXCEPT ![p] =
                      IF ok THEN Returned([value |-> "connection"])
                      ELSE Threw(ConnError("getConnection"))]
         /\ tf' = [tf EXCEPT ![p].acquired = IF ok THEN 1 ELSE 0]
    /\ pc' = [pc EXCEPT ![p] = "returned"]
    /\ UNCHANGED <<isShuttingDown, activeOperations, metrics, retryConfig, pool, db,
                   elapsed, qf, mf, gf, hist, nCalls, op>>

(* --------------------------- runMigration() --------------------------- *)
\* CREATE TABLE IF NOT EXISTS migrations resolves: the SELECT is issued
MigTableReady(p) ==
    /\ At(p, "mig_create")
    /\ pc' = [pc EXCEPT ![p] = "mig_select"]
    /\ UNCHANGED <<isShuttingDown, activeOperations, metrics, retryConfig, pool, db,
                   elapsed, qf, mf, tf, gf, out, hist, nCalls, op>>

\* SELECT id FROM migrations WHERE name = ?: the rows this transaction sees
Existing(frame) ==
    db.ledger[frame.migrationName] + (IF frame.migrationName \in frame.pendingRows THEN 1 ELSE 0)

\* faulty variant: one ledger row is not enough
AlreadyExecuted_MoreThanOne(existing) == existing > 1

\* if (existing.length > 0)
AlreadyExecuted(existing) == existing > 0

MigrationResult(executed, migrationName) ==
    Returned([executed |-> executed, migrationName |-> migrationName])

\* the SELECT resolves: either `return { executed: false, ... }` (and commit
\* is issued) or connection.execute(migrationSql) is issued
MigChecked(p) ==
    /\ At(p, "mig_select")
    /\ IF AlreadyExecuted(Existing(tf[p]))
       THEN TxCommit(p, tf[p], MigrationResult(FALSE, tf[p].migrationName))
       ELSE /\ tf' = [tf EXCEPT ![p].sqlRuns = @ + 1]
            /\ pc' = [pc EXCEPT ![p] = "mig_sql"]
            /\ UNCHANGED <<activeOperations, out>>
    /\ UNCHANGED <<isShuttingDown, metrics, retryConfig, pool, db, elapsed, qf, mf,
                   gf, hist, nCalls, op>>

\* the migration SQL resolves: the INSERT into the ledger is issued
MigSqlDone(p) ==
    /\ At(p, "mig_sql")
    /\ tf' = [tf EXCEPT ![p].ranSql = TRUE, ![p].inserts = @ + 1]
    /\ pc' = [pc EXCEPT ![p] = "mig_insert"]
    /\ UNCHANGED <<isShuttingDown, activeOperations, metrics, retryConfig, pool, db,
                   elapsed, qf, mf, gf, out, hist, nCalls, op>>

\* name VARCHAR(255) NOT NULL UNIQUE: the INSERT waits while another open
\* transaction holds an uncommitted row of that name, and fails on a committed one
InsertAllowed(p) ==
    /\ db.ledger[tf[p].migrationName] = 0
    /\ \A q \in Procs \ {p} : tf[p].migrationName \notin tf[q].pendingRows

\* the INSERT resolves: `return { executed: true, ... }`, commit is issued
MigRecorded(p) ==
    /\ At(p, "mig_insert")
    /\ InsertAllowed(p)
    /\ TxCommit(p, [tf[p] EXCEPT !.pendingRows = @ \cup {tf[p].migrationName}],
                MigrationResult(TRUE, tf[p].migrationName))
    /\ UNCHANGED <<isShuttingDown, metrics, retryConfig, pool, db, elapsed, qf, mf,
                   gf, hist, nCalls, op>>

\* one of the callback's connection.execute calls rejects: the callback throws
MigStepFails(p) ==
    /\ Running
    /\ pc[p] \in {"mig_create", "mig_select", "mig_sql", "mig_insert"}
    /\ TxCatch(p, tf[p], ConnError(pc[p]))
    /\ UNCHANGED <<isShuttingDown, metrics, retryConfig, pool, db, elapsed, qf, mf,
                   gf, hist, nCalls, op>>

(* ---------------------------- healthcheck() --------------------------- *)
\* a client calls healthcheck(): query('SELECT 1 as health_check', [], { skipRetry: true })
Healthcheck(p) ==
    /\ Called(p, "healthcheck")
    /\ QueryCall(p, Str(<<"select", "ws", "w">>), "array",
                 [hasMaxRetries |-> FALSE, maxRetries |-> 0, skipRetry |-> TRUE],
                 Ctx("healthcheck", mf[p], OperationId("query", nCalls + 1, 0)),
                 activeOperations)
    /\ UNCHANGED <<isShuttingDown, retryConfig, pool, db, elapsed, tf, gf, hist>>

(* ---------------------- gracefulShutdown() / close() ------------------ *)
\* the timeouts the clients pass, in ms
Timeouts == {k * PollIntervalMs : k \in 0..MaxTimeoutPolls}
\* the clock of the drain is followed up to here
MaxElapsed == (MaxTimeoutPolls + 1) * PollIntervalMs

\* faulty variant: the wait loop without its timeout
KeepsWaiting_NoTimeout(ops, sinceStart, timeout) == Cardinality(ops) > 0

\* faulty variant: the comparison with the timeout the wrong way round
KeepsWaiting_Reversed(ops, sinceStart, timeout) ==
    Cardinality(ops) > 0 /\ sinceStart > timeout

\* faulty variant: a do-while loop, which sleeps once before it looks
KeepsWaiting_DoWhile(ops, sinceStart, timeout) ==
    sinceStart = 0 \/ (Cardinality(ops) > 0 /\ sinceStart < timeout)

\* while (this.activeOperations.size > 0 && (Date.now() - startWait) < timeout)
KeepsWaiting(ops, sinceStart, timeout) == Cardinality(ops) > 0 /\ sinceStart < timeout

\* close(): this.pool.end() is called
PoolEnd == [pool EXCEPT !.ends = @ + 1, !.closed = TRUE]

\* the head of the wait loop at time `now` since startWait: sleep another
\* interval, or fall through to `await this.close()`; h is the record of
\* what happened, drains counting the passages from running to draining
ShutdownPoll(p, frame, now, h) ==
    IF KeepsWaiting(activeOperations, now, frame.timeout)
    THEN /\ gf' = [gf EXCEPT ![p] =
                     [frame EXCEPT !.wakeAt = now + PollIntervalMs, !.sleeps = @ + 1]]
         /\ pc' = [pc EXCEPT ![p] = "gs_sleep"]
         /\ pool' = pool
         /\ hist' = h
    ELSE /\ gf' = [gf EXCEPT ![p] = [frame EXCEPT !.ends = @ + 1]]
         /\ pc' = [pc EXCEPT ![p] = "gs_end"]
         /\ pool' = PoolEnd
         /\ hist' = [h EXCEPT !.shutdownEnds = @ + 1]

\* faulty variant: gracefulShutdown() without its guard
AlreadyShuttingDown_Never == FALSE

\* if (this.isShuttingDown) return
AlreadyShuttingDown == isShuttingDown

\* this.gracefulShutdown(timeout) with one of `timeouts`, up to its first
\* await; `after` is where the caller stands when the guard sends it back
GracefulShutdownCall(p, timeouts, after) ==
    IF AlreadyShuttingDown
    THEN /\ out' = [out EXCEPT ![p] = Returned([value |-> "undefined"])]
         /\ pc' = [pc EXCEPT ![p] = after]
         /\ UNCHANGED <<isShuttingDown, elapsed, gf, pool, hist>>
    ELSE /\ isShuttingDown' = TRUE
         /\ elapsed' = 0
         /\ \E timeout \in timeouts :
              ShutdownPoll(p, [IdleShutdown EXCEPT !.first = TRUE, !.timeout = timeout],
                           0, [hist EXCEPT !.drains = @ + 1])
         /\ out' = out

\* a client calls gracefulShutdown(timeout) with one of `timeouts`
GracefulShutdownWith(p, timeouts) ==
    /\ Called(p, "gracefulShutdown")
    /\ GracefulShutdownCall(p, timeouts, "returned")
    /\ UNCHANGED <<activeOperations, metrics, retryConfig, db, qf, mf, tf>>

\* gracefulShutdown(timeout = 10000), which outlasts every drain followed here
DefaultTimeout == MaxTimeoutPolls * PollIntervalMs

\* a signal arrives: the handler logs it and awaits this.gracefulShutdown();
\* sent back by the guard, it goes on to process.exit(0)
SignalReceived(h) ==
    /\ At(h, "idle")
    /\ \E signal \in Signals : op' = [op EXCEPT ![h] = signal]
    /\ GracefulShutdownCall(h, {DefaultTimeout}, "exited")
    /\ UNCHANGED <<activeOperations, metrics, retryConfig, db, qf, mf, tf, nCalls>>

\* a client calls gracefulShutdown(timeout)
GracefulShutdown(p) == GracefulShutdownWith(p, Timeouts)

(* --------------------------- _setupPoolEvents ------------------------- *)
\* The pool creates its connections on demand, up to connectionLimit, and
\* hands each to one user at a time: pool.made are the connections created
\* (by threadId), pool.inUse those handed out.  It emits 'connection' when it
\* creates one and 'release' when one comes back; for a connection it hands
\* out again it emits nothing this layer listens to.
ThreadIds == 1..ConnectionLimit

\* this.pool.on('connection', ...)
OnConnection(m) ==
    [m EXCEPT !.totalConnections = @ + 1, !.activeConnections = @ + 1]

\* this.pool.on('release', ...)
OnRelease(m) == [m EXCEPT !.activeConnections = @ - 1]

\* the pool creates a connection for a user that asked for one: 'connection'
PoolConnection ==
    /\ Running /\ ~pool.closed
    /\ \E id \in ThreadIds \ pool.made :
         pool' = [pool EXCEPT !.made = @ \cup {id}, !.inUse = @ \cup {id}]
    /\ metrics' = OnConnection(metrics)
    /\ UNCHANGED <<isShuttingDown, activeOperations, retryConfig, db, elapsed,
                   pc, qf, mf, tf, gf, out, hist, nCalls, op>>

\* the pool hands out a connection it has idle: no event is listened to
PoolAcquire ==
    /\ Running /\ ~pool.closed
    /\ \E id \in pool.made \ pool.inUse : pool' = [pool EXCEPT !.inUse = @ \cup {id}]
    /\ UNCHANGED <<isShuttingDown, activeOperations, metrics, retryConfig, db, elapsed,
                   pc, qf, mf, tf, gf, out, hist, nCalls, op>>

\* a connection comes back to the pool: 'release'
PoolRelease ==
    /\ Running
    /\ metrics.activeConnections > -MaxBelowZero
    /\ \E id \in pool.inUse : pool' = [pool EXCEPT !.inUse = @ \ {id}]
    /\ metrics' = OnRelease(metrics)
    /\ UNCHANGED <<isShuttingDown, activeOperations, retryConfig, db, elapsed,
                   pc, qf, mf, tf, gf, out, hist, nCalls, op>>

\* time passes during the drain
Tick ==
    /\ \E p \in Callers : At(p, "gs_sleep")
    /\ elapsed < MaxElapsed
    /\ elapsed' = elapsed + PollIntervalMs
    /\ UNCHANGED <<isShuttingDown, activeOperations, metrics, retryConfig, pool, db,
                   pc, qf, mf, tf, gf, out, hist, nCalls, op>>

\* the timer of `await this.#sleep(100)` fires
ShutdownWake(p) ==
    /\ At(p, "gs_sleep")
    /\ elapsed >= gf[p].wakeAt
    /\ ShutdownPoll(p, gf[p], elapsed, hist)
    /\ UNCHANGED <<isShuttingDown, activeOperations, metrics, retryConfig, db, elapsed,
                   qf, mf, tf, out, nCalls, op>>

\* a client calls close()
Close(p) ==
    /\ Called(p, "close")
    /\ pool' = PoolEnd
    /\ pc' = [pc EXCEPT ![p] = "cl_end"]
    /\ UNCHANGED <<isShuttingDown, activeOperations, metrics, retryConfig, db, elapsed,
                   qf, mf, tf, gf, out, hist>>

\* faulty variant: close() shuts the gates once the pool has ended
FlagAfterClose_Set(flag) == TRUE

\* faulty variant: close() opens the instance again once the pool has ended
FlagAfterClose_Reset(flag) == FALSE

\* close() does not assign isShuttingDown: the flag after it is the flag before
FlagAfterClose(flag) == flag

\* pool.end() settles; close() returns or rethrows, and so does
\* gracefulShutdown(); the signal handler awaiting it goes on to
\* process.exit(0), or is left with the rejection
PoolEndSettles(p) ==
    /\ At(p, "gs_end") \/ At(p, "cl_end")
    /\ isShuttingDown' = FlagAfterClose(isShuttingDown)
    /\ \E ok \in BOOLEAN :
         /\ out' = [out EXCEPT ![p] =
                      IF ok THEN Returned([value |-> "undefined"]) ELSE Threw(ConnError("end"))]
         /\ pc' = [pc EXCEPT ![p] = IF ok /\ op[p] \in Signals THEN "exited" ELSE "returned"]
    /\ UNCHANGED <<activeOperations, metrics, retryConfig, pool, db,
                   elapsed, qf, mf, tf, gf, hist, nCalls, op>>

\* the client takes the settled call's outcome and is free to call again
Return(p) ==
    /\ At(p, "returned")
    /\ pc' = [pc EXCEPT ![p] = "idle"]
    /\ qf' = [qf EXCEPT ![p] = IdleQuery]
    /\ mf' = [mf EXCEPT ![p] = IdleMulti]
    /\ tf' = [tf EXCEPT ![p] = IdleTx]
    /\ gf' = [gf EXCEPT ![p] = IdleShutdown]
    /\ out' = [out EXCEPT ![p] = NoResult]
    /\ UNCHANGED <<isShuttingDown, activeOperations, metrics, retryConfig, pool,
                   db, elapsed, hist, nCalls, op>>

Next ==
    \/ Tick
    \/ PoolConnection \/ PoolAcquire \/ PoolRelease
    \/ \E h \in Handlers :
         SignalReceived(h) \/ ShutdownWake(h) \/ PoolEndSettles(h)
    \/ \E p \in Procs :
        \/ ValidateQueryCalled(p)
        \/ Query(p)
        \/ QueryExecuteOk(p)
        \/ QueryExecuteFails(p)
        \/ QueryBackoffDone(p)
        \/ MultiQuery(p)
        \/ MultiNext(p)
        \/ Transaction(p)
        \/ RunMigration(p)
        \/ TxConnected(p)
        \/ TxConnectFails(p)
        \/ TxBegun(p)
        \/ TxBeginFails(p)
        \/ TxWorkDone(p)
        \/ TxWorkFails(p)
        \/ TxCommitted(p)
        \/ TxCommitFails(p)
        \/ TxRolledBack(p)
        \/ TxRollbackFails(p)
        \/ GetConnection(p)
        \/ GetConnectionSettles(p)
        \/ MigTableReady(p)
        \/ MigChecked(p)
        \/ MigSqlDone(p)
        \/ MigRecorded(p)
        \/ MigStepFails(p)
        \/ Healthcheck(p)
        \/ GracefulShutdown(p)
        \/ ShutdownWake(p)
        \/ Close(p)
        \/ PoolEndSettles(p)
        \/ Return(p)

Spec == Init /\ [][Next]_vars

(* ------------------- the layer seen one part at a time ---------------- *)
\* In the specifications below client "a" is the application and "b" a second
\* caller; each keeps the actions of one part of the layer.

\* the steps of a query() in flight, its pool.execute resolving within the
\* millisecond
QuerySteps(p) == QueryExecuteOkWith(p, {0}) \/ QueryExecuteFails(p) \/ QueryBackoffDone(p)

\* the steps of a transaction() in flight
TxSteps(p) ==
    \/ TxConnected(p) \/ TxConnectFails(p) \/ TxBegun(p) \/ TxBeginFails(p)
    \/ TxCommitted(p) \/ TxCommitFails(p) \/ TxRolledBack(p) \/ TxRollbackFails(p)

\* the steps of runMigration()'s callback
MigrationSteps(p) ==
    MigTableReady(p) \/ MigChecked(p) \/ MigSqlDone(p) \/ MigRecorded(p) \/ MigStepFails(p)

\* the params that have a length
WithLength == ParamKinds \ {"null"}

\* query() and healthcheck() calls of both clients, interleaved, the params
\* of the calls having a length
NextQuery ==
    \E p \in Procs : QueryWith(p, WithLength) \/ Healthcheck(p) \/ QuerySteps(p) \/ Return(p)
SpecQuery == Init /\ [][NextQuery]_vars

\* _validateQuery on its own: the instance is given one pair of arguments,
\* which client "a" passes
InitValidate == \E args \in ValidateArgs : Constructed(DefaultConfig, args)
NextValidate == \E p \in {"a"} : ValidateQueryOf(p, {hist.args}) \/ Return(p)
SpecValidate == InitValidate /\ [][NextValidate]_vars

\* the signals: client "a" has queries in flight while signals arrive and
\* the handler runs for each, until process.exit(0)
NextSignals ==
    \/ Tick
    \/ \E p \in {"a"} : QueryWith(p, WithLength) \/ QuerySteps(p) \/ Return(p)
    \/ \E h \in Handlers :
         SignalReceived(h) \/ ShutdownWake(h) \/ PoolEndSettles(h)
SpecSignals == Init /\ [][NextSignals]_vars

\* the pool's events alone: connections created, handed out and released
NextPool == PoolConnection \/ PoolAcquire \/ PoolRelease
SpecPool == Init /\ [][NextPool]_vars

\* the retry settings instances are configured with
RetryConfigs ==
    [maxRetries : 0..MaxRetriesBound, retryDelay : {RetryDelayMs, 100},
     backoffMultiplier : {1, BackoffMultiplier, 3}]

\* one client's query() calls on an instance built with any of these settings
InitRetry == \E config \in RetryConfigs : NewInstance(config)
NextRetry ==
    \E p \in {"a"} :
        \/ Query(p)
        \/ QueryExecuteOk(p) \/ QueryExecuteFails(p) \/ QueryBackoffDone(p)
        \/ Return(p)
SpecRetry == InitRetry /\ [][NextRetry]_vars

\* query(), multiQuery() and transaction() calls of both clients, interleaved;
\* on a connection it has got, a transaction meets no error
NextOperations ==
    \E p \in Procs :
        \/ QueryWith(p, {"array"}) \/ QuerySteps(p)
        \/ MultiQueryOf(p, {b \in Batches : Len(b) <= 1}) \/ MultiNext(p)
        \/ Transaction(p) \/ TxConnected(p) \/ TxConnectFails(p) \/ TxBegun(p)
        \/ TxWorkDone(p) \/ TxCommitted(p)
        \/ Return(p)
SpecOperations == Init /\ [][NextOperations]_vars

\* query() calls of "a", their params having a length, while "b" shuts the
\* instance down
NextDrain ==
    \/ Tick
    \/ \E p \in {"a"} : QueryWith(p, WithLength) \/ QuerySteps(p)
    \/ \E p \in {"b"} : GracefulShutdown(p) \/ ShutdownWake(p) \/ PoolEndSettles(p)
    \/ \E p \in Procs : Return(p)

\* the same, where every pool.execute settles and every timer fires: those
\* of the backoff and of #sleep(100), time passing while a drain sleeps
SpecDrainFair ==
    /\ Init /\ [][NextDrain]_vars
    /\ WF_vars(Tick)
    /\ \A p \in Procs : WF_vars(QuerySteps(p)) /\ WF_vars(ShutdownWake(p))

\* multiQuery() calls of "a" while "b" may shut the instance down at once
NextMulti ==
    \/ \E p \in {"a"} : MultiQuery(p) \/ MultiNext(p) \/ QuerySteps(p)
    \/ \E p \in {"b"} : GracefulShutdownWith(p, {0}) \/ PoolEndSettles(p)
    \/ \E p \in Procs : Return(p)
SpecMulti == Init /\ [][NextMulti]_vars

\* transaction() calls of both clients, interleaved
NextTx ==
    \E p \in Procs : Transaction(p) \/ TxSteps(p) \/ TxWorkDone(p) \/ TxWorkFails(p) \/ Return(p)
SpecTx == Init /\ [][NextTx]_vars

\* runMigration() calls of both clients, interleaved
NextMigration ==
    \E p \in Procs : RunMigration(p) \/ TxSteps(p) \/ MigrationSteps(p) \/ Return(p)
SpecMigration == Init /\ [][NextMigration]_vars

\* every operation of "a" (its batches hold one query at most), with
\* gracefulShutdown() and close() by both clients
NextLifecycle ==
    \/ Tick
    \/ \E p \in {"a"} :
         \/ Query(p) \/ Healthcheck(p) \/ QuerySteps(p)
         \/ MultiQueryOf(p, {b \in Batches : Len(b) <= 1}) \/ MultiNext(p)
         \/ Transaction(p) \/ TxWorkDone(p) \/ TxWorkFails(p) \/ TxSteps(p)
         \/ RunMigration(p) \/ MigrationSteps(p)
         \/ GetConnection(p) \/ GetConnectionSettles(p)
    \/ \E p \in Procs :
         GracefulShutdown(p) \/ ShutdownWake(p) \/ Close(p) \/ PoolEndSettles(p) \/ Return(p)
SpecLifecycle == Init /\ [][NextLifecycle]_vars

\* the same with the event loop's guarantees: time passes while a drain
\* sleeps, and the timer of #sleep(100) fires once its time has come.  Nothing
\* is promised about the pool: an operation in flight may never settle.
SpecLifecycleFair ==
    /\ SpecLifecycle
    /\ WF_vars(Tick)
    /\ \A p \in Procs : WF_vars(ShutdownWake(p))

(* ============================== properties ============================ *)

(* ------------------------------- query() ------------------------------ *)
\* the query() of p has run to its end
QueryDone(p) == qf[p].admitted /\ ~qf[p].active

\* the query() of p ended with an error after nothing but retryable failures
\* of pool.execute, its effective maxRetries being some n >= 0
ExhaustedRetries(p) ==
    /\ QueryDone(p)
    /\ qf[p].maxRetries >= 0
    /\ qf[p].allRetryable
    /\ qf[p].result.status = "threw"

\* n + 1 attempts, the error of the last one thrown, no backoff when n = 0
AttemptsAndError(p) ==
    /\ qf[p].execs = qf[p].maxRetries + 1
    /\ qf[p].raised.at = qf[p].maxRetries
    /\ qf[p].result = Threw(qf[p].raised)
    /\ (qf[p].maxRetries = 0 => qf[p].sleeps = 0)

GatedOperations == {"query", "multiQuery", "transaction", "runMigration", "getConnection"}

\* p calls a method in this step
Calls(p, methods) == pc[p] = "idle" /\ pc'[p] # "idle" /\ op'[p] \in methods

\* the call of p is over in the step it is made in, with the shutdown error,
\* no id tracked, no query counted and nothing asked of the pool
RejectedAtTheGate(p) ==
    /\ pc'[p] = "returned"
    /\ out'[p].status = "threw"
    /\ out'[p].err.type = "shutdown"
    /\ activeOperations' = activeOperations
    /\ metrics' = metrics
    /\ pool' = pool
    /\ db' = db

\* C3: once isShuttingDown is true, every call of query, multiQuery,
\* transaction, runMigration and getConnection is rejected with a "shutting
\* down" error, without adding to activeOperations and without any call on
\* the pool.
C3_RejectedWhileShuttingDown ==
    [][\A p \in Procs :
          (isShuttingDown /\ Calls(p, GatedOperations)) => RejectedAtTheGate(p)]_vars

\* a transaction() called during the shutdown, rejected
C3_Witness ==
    \E p \in Procs :
        /\ isShuttingDown
        /\ op[p] = "transaction" /\ pc[p] = "returned"
        /\ out[p].status = "threw" /\ out[p].err.type = "shutdown"
        /\ tf[p].acquired = 0

(* ---------------------------- transaction() --------------------------- *)
\* the ids of the operations the clients still have in flight
IdsInFlight ==
    {qf[p].id : p \in {q \in Procs : qf[q].active}}
        \cup {mf[p].id : p \in {q \in Procs : mf[q].active}}
        \cup {tf[p].id : p \in {q \in Procs : pc[q] \in
                 {"tx_getconn", "tx_begin", "tx_uow", "tx_commit", "tx_rollback",
                  "mig_create", "mig_select", "mig_sql", "mig_insert"}}}

\* C4, as stated: every query, multiQuery and transaction that was admitted
\* has its id removed from activeOperations when it exits, by return or by
\* throw: the ids tracked are those of operations still in flight.
C4_IdsRemovedOnExit == activeOperations \subseteq IdsInFlight

\* C5: when the callback of transaction() throws, or the commit fails, one
\* rollback is issued on the acquired connection and the connection is
\* released once; after a throw of the callback no commit is issued.
C5_RollbackAndReleaseOnce ==
    \A p \in Procs :
        (pc[p] = "returned" /\ op[p] = "transaction"
            /\ tf[p].caught.type \in {"callback", "commit"})
        => /\ tf[p].acquired = 1
           /\ tf[p].rollbacks = 1
           /\ tf[p].releases = 1
           /\ tf[p].commits = (IF tf[p].caught.type = "commit" THEN 1 ELSE 0)

\* one transaction ended by its callback's throw, another by a failed commit
C5_Witness ==
    \E p, q \in Procs :
        /\ pc[p] = "returned" /\ op[p] = "transaction" /\ tf[p].caught.type = "callback"
        /\ tf[p].rollbacks = 1 /\ tf[p].releases = 1 /\ tf[p].commits = 0
        /\ pc[q] = "returned" /\ op[q] = "transaction" /\ tf[q].caught.type = "commit"
        /\ tf[q].rollbacks = 1 /\ tf[q].releases = 1

\* C6, as stated: when the callback of transaction() throws an error E, or
\* the commit fails with E, the error transaction() throws is E.
C6_OriginalErrorThrown ==
    \A p \in Procs :
        (pc[p] = "returned" /\ op[p] = "transaction"
            /\ tf[p].caught.type \in {"callback", "commit"})
        => out[p].status = "threw" /\ out[p].err = tf[p].caught

(* --------------------------- runMigration() --------------------------- *)
\* the runMigration() of p has returned a result
MigrationReturned(p) ==
    /\ op[p] = "runMigration" /\ pc[p] = "returned"
    /\ tf[p].kind = "migration"
    /\ out[p].status = "ok"

\* C7: of two runMigration calls with the same SQL text made one after the
\* other, the first returns { executed: true } and the second
\* { executed: false }, both with the content hash as migrationName; the
\* second neither runs the migration SQL nor inserts a ledger row, and the
\* ledger holds exactly one row of that hash.
C7_SecondRunIsNoOp ==
    \A p \in Procs :
        /\ (MigrationReturned(p) /\ tf[p].fresh /\ ~tf[p].overlapped)
           => /\ out[p].val.executed
              /\ out[p].val.migrationName = tf[p].migrationName
              /\ tf[p].sqlRuns = 1 /\ tf[p].inserts = 1
              /\ db.ledger[tf[p].migrationName] = 1
        /\ (tf[p].kind = "migration" /\ tf[p].seenDone)
           => /\ tf[p].sqlRuns = 0 /\ tf[p].inserts = 0
              /\ db.ledger[tf[p].migrationName] = 1
              /\ MigrationReturned(p)
                 => /\ ~out[p].val.executed
                    /\ out[p].val.migrationName = tf[p].migrationName

\* the two runs side by side: the first by p, the second by q
C7_Witness ==
    \E p, q \in Procs :
        /\ MigrationReturned(p) /\ tf[p].fresh /\ ~tf[p].overlapped
        /\ out[p].val.executed
        /\ MigrationReturned(q) /\ tf[q].seenDone
        /\ ~out[q].val.executed
        /\ tf[q].migrationName = tf[p].migrationName
        /\ out[q].val.migrationName = out[p].val.migrationName
        /\ db.ledger[tf[p].migrationName] = 1

(* ----------------------------- multiQuery() --------------------------- *)
\* the multiQuery() of p, given a batch, has ended
MultiDone(p) == op[p] = "multiQuery" /\ pc[p] = "returned" /\ mf[p].admitted

Ascending(list) ==
    \A j, k \in 1..Len(list) : j < k => list[j].index < list[k].index

\* how many entries of a list carry the index i
Carrying(list, i) == Cardinality({j \in 1..Len(list) : list[j].index = i})

\* C8: for a batch of n queries, multiQuery returns n entries, the one at
\* position i being { index: i, result }, when all succeed; when one or more
\* fail it throws an error whose results are the queries that succeeded and
\* whose errors are those that failed, every index 0..n-1 in exactly one of
\* the lists, both in ascending order; every query of the batch is attempted
\* whatever became of those before it.
C8_MultiQueryPartition ==
    \A p \in Procs :
        MultiDone(p) =>
            LET n == Len(mf[p].queries)
                results == mf[p].results
                errors == mf[p].errors
            IN  /\ Len(mf[p].settled) = n
                /\ \A i \in 0..(n - 1) :
                     /\ Carrying(results, i) = (IF mf[p].settled[i + 1] = "ok" THEN 1 ELSE 0)
                     /\ Carrying(errors, i) = (IF mf[p].settled[i + 1] = "ok" THEN 0 ELSE 1)
                /\ Len(results) + Len(errors) = n
                /\ Ascending(results) /\ Ascending(errors)
                /\ IF Len(errors) = 0
                   THEN /\ out[p].status = "ok"
                        /\ out[p].val = results
                        /\ \A i \in 1..n : out[p].val[i].index = i - 1
                   ELSE /\ out[p].status = "threw"
                        /\ out[p].err.type = "multiQuery"
                        /\ out[p].val.results = results
                        /\ out[p].val.errors = errors

\* a batch of two whose first query failed and whose second succeeded
C8_Witness ==
    \E p \in Procs :
        /\ MultiDone(p)
        /\ Len(mf[p].queries) = 2
        /\ mf[p].settled = <<"threw", "ok">>
        /\ out[p].status = "threw"
        /\ Len(out[p].val.errors) = 1 /\ out[p].val.errors[1].index = 0
        /\ Len(out[p].val.results) = 1 /\ out[p].val.results[1].index = 1

(* -------------------------- gracefulShutdown() ------------------------ *)
\* gracefulShutdown() of p leaves its wait loop and calls close() in this step
ShutdownCloses(p) == pc[p] # "gs_end" /\ pc'[p] = "gs_end"

\* C9: gracefulShutdown(timeout) calls the pool's end() only when
\* activeOperations is empty or timeout milliseconds or more have passed
\* since the drain began, never earlier with an operation still tracked.
C9_CloseWhenDrainedOrTimedOut ==
    [][\A p \in Procs :
          ShutdownCloses(p) => (activeOperations' = {} \/ elapsed' >= gf'[p].timeout)]_vars

\* a drain that slept, ran out of time and closed with an operation tracked
C9_Witness ==
    \E p \in Procs :
        /\ pc[p] = "gs_end"
        /\ gf[p].timeout > 0 /\ gf[p].sleeps > 0
        /\ activeOperations # {}
        /\ elapsed >= gf[p].timeout

\* a call of gracefulShutdown() that finds isShuttingDown set returns in the
\* step it is made in and leaves the instance as it was
LaterShutdownCallIsNoOp(p) ==
    /\ pc'[p] = "returned"
    /\ out'[p].status = "ok"
    /\ gf' = gf
    /\ UNCHANGED <<isShuttingDown, activeOperations, metrics, retryConfig, pool, db, hist>>

\* C10: gracefulShutdown is idempotent: over any number of calls, one after
\* another or overlapping, the instance goes from running to draining once,
\* only the first call polls and closes, gracefulShutdown calls the pool's
\* end() once at most, and every later call changes no state.
C10_ShutdownIdempotent ==
    /\ [](/\ hist.drains <= 1
          /\ hist.shutdownEnds <= 1
          /\ (isShuttingDown <=> hist.drains = 1)
          /\ \A p \in Procs : (gf[p].sleeps > 0 \/ gf[p].ends > 0) => gf[p].first
          /\ Cardinality({p \in Procs : gf[p].first}) <= 1)
    /\ [][\A p \in Procs :
             (isShuttingDown /\ Calls(p, {"gracefulShutdown"})) => LaterShutdownCallIsNoOp(p)]_vars

\* a second call returned while the first one is still closing the pool
C10_Witness ==
    \E p, q \in Procs :
        /\ p # q
        /\ pc[p] = "gs_end" /\ gf[p].first
        /\ op[q] = "gracefulShutdown" /\ pc[q] = "returned" /\ ~gf[q].first
        /\ hist.drains = 1 /\ hist.shutdownEnds = 1

(* --------------------------- the shutdown flag ------------------------ *)
\* C11: isShuttingDown is false on a new instance and, once an operation
\* has set it, no operation of the layer (query, multiQuery, transaction,
\* runMigration, getConnection, healthcheck, gracefulShutdown, close) sets
\* it back to false.
C11_FlagMonotonic ==
    /\ ~isShuttingDown
    /\ [][isShuttingDown => isShuttingDown']_vars

\* the shutdown is over, the pool has ended, and the flag is still set
C11_Witness ==
    \E p \in Procs :
        /\ isShuttingDown
        /\ op[p] = "gracefulShutdown" /\ pc[p] = "returned" /\ gf[p].first
        /\ pool.closed

(* ---------------------- operations during the drain ------------------- *)
\* C12: from the moment isShuttingDown is true no id is added to
\* activeOperations: in every later step the set stays as it is or shrinks,
\* also while operations admitted earlier (a multiQuery between two of its
\* queries, a query between two attempts) go on.
C12_NoAdmissionWhileShuttingDown ==
    [][isShuttingDown => activeOperations' \subseteq activeOperations]_vars

\* a multiQuery admitted before the shutdown, its next query refused at the
\* gate, with no id but the multiQuery's own tracked
C12_Witness ==
    \E p \in Procs :
        /\ isShuttingDown
        /\ pc[p] = "mq_next" /\ mf[p].index >= 1
        /\ mf[p].pending.status = "threw" /\ mf[p].pending.err.type = "shutdown"
        /\ activeOperations = {mf[p].id}

\* the outcomes of the queries of p's batch that are shutdown errors
RefusedInBatch(p) ==
    {i \in 1..Len(mf[p].errors) : mf[p].errors[i].error.type = "shutdown"}

\* C13, as stated: gracefulShutdown does not interrupt an operation admitted
\* before it began: an admitted multiQuery executes every remaining query of
\* its batch and an admitted query makes its remaining attempts; no part of
\* an admitted operation fails with a "shutting down" error.
C13_AdmittedNotInterrupted ==
    \A p \in Procs :
        /\ mf[p].admitted
           => /\ mf[p].pending.err.type # "shutdown"
              /\ RefusedInBatch(p) = {}
        /\ qf[p].admitted => qf[p].result.err.type # "shutdown"

\* C14: every first gracefulShutdown(timeout) call gets to close the pool:
\* it calls the pool's end() in the end, whether the drain finished cleanly
\* or an admitted operation never completes, the wait being bounded by timeout.
C14_ShutdownReachesClose == (hist.drains = 1) ~> (hist.shutdownEnds = 1)

\* a shutdown that slept, gave up waiting and is over, an operation still tracked
C14_Witness ==
    \E p \in Procs :
        /\ op[p] = "gracefulShutdown" /\ pc[p] = "returned"
        /\ gf[p].first /\ gf[p].sleeps >= 1 /\ gf[p].ends = 1
        /\ activeOperations # {}
        /\ pool.ends >= 1

(* ------------------------- backoff and metrics ------------------------ *)
\* the waits query() has begun so far: one after every failed attempt but
\* the one in progress or the last
WaitsBegun(p) ==
    IF qf[p].active /\ pc[p] = "q_sleep" THEN qf[p].execs
    ELSE IF qf[p].execs = 0 THEN 0 ELSE qf[p].execs - 1

\* C16: in query() the wait before attempt k (k >= 1, attempts counted from
\* 0) is retryDelay * backoffMultiplier^(k-1) milliseconds, taken from the
\* instance's retry settings; there is no wait before attempt 0 and none
\* after the last failed attempt.
C16_BackoffDelays ==
    \A p \in Procs :
        qf[p].admitted =>
            /\ Len(qf[p].delays) = WaitsBegun(p)
            /\ \A k \in 1..Len(qf[p].delays) :
                 qf[p].delays[k] =
                     retryConfig.retryDelay * Pow(retryConfig.backoffMultiplier, k - 1)

\* a query() that failed three times on an instance with retryDelay 100 and
\* backoffMultiplier 3: it waited 100 ms, then 300 ms
C16_Witness ==
    \E p \in Procs :
        /\ QueryDone(p)
        /\ retryConfig.retryDelay = 100 /\ retryConfig.backoffMultiplier = 3
        /\ qf[p].execs = 3
        /\ qf[p].delays = <<100, 300>>

\* C17, as stated: totalQueries is incremented once per query() call: after
\* a call that succeeds in the end it has grown by exactly 1, however many
\* attempts the call made.  Stated of the first call on a new instance.
C17_CountedOncePerCall ==
    \A p \in Procs :
        (nCalls = 1 /\ QueryDone(p) /\ qf[p].result.status = "ok")
        => metrics.totalQueries = 1

(* ----------------------- migrations, concurrently --------------------- *)
\* the runMigration() of p is in flight and has issued the migration SQL
RanMigrationSql(p, name) == InFlightMigration(p, name) /\ tf[p].sqlRuns >= 1

\* C18, as stated: a migration of a given SQL text is executed once at most,
\* also when two runMigration calls with that text run together on two
\* connections: however their ledger checks, migration SQL and ledger
\* inserts interleave, one of them at most executes the migration SQL, and
\* the ledger has one row at most of that hash.
C18_ExecutedAtMostOnce ==
    \A name \in MigrationNames :
        /\ db.ledger[name] <= 1
        /\ Cardinality({p \in Procs : RanMigrationSql(p, name)}) <= 1

\* the runMigration() of p is over, having failed in the migration SQL or
\* in the ledger insert
MigrationFailedLate(p) ==
    /\ op[p] = "runMigration" /\ pc[p] = "returned"
    /\ tf[p].kind = "migration"
    /\ tf[p].caught.type \in {"mig_sql", "mig_insert"}

\* what the runs that returned { executed: true } have left of a migration
Persisted(name) == IF name \in hist.executedTrue THEN 1 ELSE 0

\* the transaction of p was rolled back and its connection released;
\* nothing of it persists: the migration's change and the ledger row are
\* there only as far as a run that succeeded left them
RolledBackAndReleased(p) ==
    /\ tf[p].rollbacks = 1 /\ tf[p].commits = 0
    /\ tf[p].releases = 1
    /\ tf[p].pendingRows = {} /\ ~tf[p].ranSql
    /\ db.ledger[tf[p].migrationName] = Persisted(tf[p].migrationName)
    /\ db.applied[tf[p].migrationName] = Persisted(tf[p].migrationName)

\* C19, as stated: when runMigration fails after the ledger check (in the
\* migration SQL or in the ledger insert), the transaction is rolled back,
\* so that neither the migration's change nor a ledger row of its hash
\* persists, the connection is released and the error reaches the caller; a
\* later runMigration of the same SQL finds it not executed.
C19_FailedMigrationRolledBack ==
    \A p \in Procs :
        MigrationFailedLate(p)
        => /\ RolledBackAndReleased(p)
           /\ out[p].status = "threw"
           /\ out[p].err = tf[p].caught

\* the part of C19 that the code keeps: the rollback, the release and the
\* state of the database
C19_RollbackPart == \A p \in Procs : MigrationFailedLate(p) => RolledBackAndReleased(p)

(* ----------------------- the order within a batch --------------------- *)
\* the ids in activeOperations of the query() calls made by p's multiQuery()
BatchIdsInFlight(p) ==
    {id \in activeOperations : id[1] = "query" /\ id[2] = mf[p].callNo}

RejectedByValidation(p) ==
    /\ pc'[p] = "returned"
    /\ out'[p].status = "threw"
    /\ ~qf'[p].admitted /\ qf'[p].execs = 0
    /\ activeOperations' = activeOperations
    /\ metrics'.totalQueries = metrics.totalQueries
    /\ metrics'.failedQueries = metrics.failedQueries
    /\ metrics'.avgQueryTime = metrics.avgQueryTime
    /\ pool' = pool

\* C21: a query() call rejected by validation has no side effects: it makes
\* no call of pool.execute, adds no id to activeOperations, and leaves
\* totalQueries, failedQueries and avgQueryTime as they were.
C21_ValidationRejectsWithoutEffect ==
    [][\A p \in Procs :
          (Calls(p, {"query"}) /\ out'[p].status = "threw"
                               /\ out'[p].err.type = "validation")
          => RejectedByValidation(p)]_vars

\* a query() rejected by validation after a query that was counted and timed
C21_Witness ==
    \E p \in Procs :
        /\ op[p] = "query" /\ pc[p] = "returned"
        /\ out[p].status = "threw" /\ out[p].err.type = "validation"
        /\ metrics.totalQueries > 0 /\ metrics.avgQueryTime > 0
        /\ activeOperations = {}

(* ---------------------------- _validateQuery -------------------------- *)
\* p has called _validateQuery on its own and the call is over
Validated(p) == op[p] = "_validateQuery" /\ pc[p] = "returned" /\ hist.args.given

\* the spellings of the words the layer looks for
StatementWords ==
    {"drop", "DROP", "Drop", "delete", "DELETE", "Delete",
     "truncate", "TRUNCATE", "Truncate", "alter", "ALTER", "Alter"}
UnionWords == {"union", "UNION", "Union"}
SelectWords == {"select", "SELECT", "Select"}

\* the text is not a string, or nothing is left of it after trimming
NotANonEmptyString(sql) ==
    \/ ~sql.isString
    \/ {i \in 1..Len(sql.toks) : sql.toks[i] # "ws"} = {}

\* the text has a ';' then, after optional whitespace, one of the statement
\* words and whitespace; or UNION, whitespace, SELECT; or '--'; or '/*'
NamedDangerous(sql) ==
    LET t == sql.toks
        n == Len(sql.toks)
    IN \/ \E i \in 1..n, k \in 1..n :
             /\ i < k /\ k < n
             /\ t[i] = ";"
             /\ {j \in (i + 1)..(k - 1) : t[j] # "ws"} = {}
             /\ t[k] \in StatementWords
             /\ t[k + 1] = "ws"
       \/ \E i \in 1..n :
             /\ i + 2 <= n
             /\ t[i] \in UnionWords /\ t[i + 1] = "ws" /\ t[i + 2] \in SelectWords
       \/ \E i \in 1..n : t[i] = "--" \/ t[i] = "/*"

\* C22: _validateQuery fails for every sql that is not a string or is empty
\* after trimming, and for every sql that contains a ';' followed, after
\* optional whitespace, by DROP, DELETE, TRUNCATE or ALTER and whitespace in
\* any letter case, or UNION SELECT in any letter case, or '--', or '/*'; it
\* accepts every other non-empty string sql given array or absent params.
C22_ValidateQuerySql ==
    \A p \in Procs :
        Validated(p) =>
            IF NotANonEmptyString(hist.args.sql) \/ NamedDangerous(hist.args.sql)
            THEN out[p].status = "threw" /\ out[p].err.type = "validation"
            ELSE hist.args.params \in {"array", "undefined"} => out[p].status = "ok"

\* '; Delete ' passed with array params and refused as dangerous
C22_Witness ==
    \E p \in Procs :
        /\ Validated(p)
        /\ hist.args.sql = Str(<<";", "Delete", "ws">>)
        /\ hist.args.params = "array"
        /\ out[p] = Threw(ValidationError("Potentially dangerous SQL query detected"))

\* the params that are provided and are not an array
ProvidedNonArrays == {"string", "object", "number", "zero", "emptyString", "false"}

\* C23: for every params value that is provided and is not an array (a
\* non-empty string, an object, a number including 0, the empty string,
\* false) _validateQuery of a non-empty string sql fails with the 'Query
\* parameters must be an array' error.
C23_NonArrayParamsRejected ==
    \A p \in Procs :
        (/\ Validated(p)
         /\ ~NotANonEmptyString(hist.args.sql)
         /\ hist.args.params \in ProvidedNonArrays)
        => out[p] = Threw(ValidationError("Query parameters must be an array"))

(* ------------------------------ healthcheck --------------------------- *)
\* the healthcheck() of p returns in this step
HealthcheckReturns(p) == op'[p] = "healthcheck" /\ pc[p] # "returned" /\ pc'[p] = "returned"

\* what healthcheck() hands back, given the one query() it made
HealthReport(p) ==
    /\ out'[p].status = "ok"
    /\ out'[p].val.metrics = GetMetrics(metrics')
    /\ IF qf'[p].execs = 1 /\ qf'[p].result.status = "ok"
       THEN /\ out'[p].val.status = "healthy"
            /\ out'[p].val.responseTime # Absent
       ELSE /\ out'[p].val.status = "unhealthy"
            /\ out'[p].val.error = qf'[p].result.err
            /\ out'[p].val.error # NoError

\* C24: healthcheck() never throws: it makes at most one pool.execute
\* attempt (no retry, even for a retryable error) and returns status
\* 'healthy' with responseTime and metrics exactly when that attempt
\* succeeded, otherwise status 'unhealthy' with the error and metrics; while
\* isShuttingDown is true it returns 'unhealthy' without any pool call.
C24_HealthcheckNeverThrows ==
    /\ [](\A p \in Procs :
            (op[p] = "healthcheck" /\ pc[p] # "idle")
            => qf[p].execs <= 1 /\ qf[p].sleeps = 0 /\ pc[p] \in {"q_exec", "returned"})
    /\ [][\A p \in Procs :
            /\ HealthcheckReturns(p) => HealthReport(p)
            /\ (isShuttingDown /\ Calls(p, {"healthcheck"}))
               => /\ HealthcheckReturns(p)
                  /\ out'[p].val.status = "unhealthy"
                  /\ qf'[p].execs = 0
                  /\ pool' = pool]_vars

\* a healthcheck() whose one attempt failed with a retryable error on an
\* instance that retries, reported as unhealthy
C24_Witness ==
    \E p \in Procs :
        /\ op[p] = "healthcheck" /\ pc[p] = "returned"
        /\ retryConfig.maxRetries >= 1
        /\ qf[p].execs = 1 /\ IsRetryable(qf[p].raised)
        /\ out[p].status = "ok" /\ out[p].val.status = "unhealthy"
        /\ out[p].val.error = qf[p].raised

(* ------------------------ shutdown with nothing to drain -------------- *)
\* C25: gracefulShutdown called in a state with zero active operations
\* closes the pool immediately, without performing any polling wait (no
\* 100 ms sleep), and leaves isShuttingDown true.  The call is one that
\* starts the shutdown; the calls made during a shutdown are no-ops.
C25_NothingToDrainClosesAtOnce ==
    /\ [][\A p \in Procs :
            (Calls(p, {"gracefulShutdown"}) /\ ~isShuttingDown /\ activeOperations = {})
            => /\ pc'[p] = "gs_end"
               /\ gf'[p].sleeps = 0
               /\ pool'.closed /\ pool'.ends = pool.ends + 1
               /\ isShuttingDown']_vars
    /\ [](\A p \in Procs :
            (op[p] = "gracefulShutdown" /\ gf[p].first /\ gf[p].sleeps = 0
                                        /\ pc[p] \in {"gs_end", "returned"})
            => isShuttingDown /\ pool.closed)

\* a gracefulShutdown with a timeout to spare that found nothing in flight and
\* has returned with the pool closed
C25_Witness ==
    \E p \in Procs :
        /\ op[p] = "gracefulShutdown" /\ pc[p] = "returned"
        /\ gf[p].first /\ gf[p].timeout > 0 /\ gf[p].sleeps = 0 /\ gf[p].ends = 1
        /\ activeOperations = {}
        /\ pool.closed /\ isShuttingDown

(* ---------------------- the connection of a transaction --------------- *)
\* the awaits of transaction() at which it holds its connection
HoldsConnection(p) ==
    pc[p] \in {"tx_begin", "tx_uow", "tx_commit", "tx_rollback",
               "mig_create", "mig_select", "mig_sql", "mig_insert"}

\* C26: every connection that transaction() acquires is released exactly
\* once on every outcome (success, failure of beginTransaction, of the unit
\* of work, of commit, of rollback): never twice, never left unreleased.
C26_ReleasedExactlyOnce ==
    \A p \in Procs :
        tf[p].kind \in {"plain", "migration"} =>
            /\ tf[p].acquired <= 1
            /\ tf[p].releases <= tf[p].acquired
            /\ (HoldsConnection(p) => tf[p].acquired = 1 /\ tf[p].releases = 0)
            /\ (pc[p] = "returned" => tf[p].releases = tf[p].acquired)

\* a transaction whose rollback failed and one whose beginTransaction
\* failed, both back with their connection released
C26_Witness ==
    \E p, q \in Procs :
        /\ pc[p] = "returned" /\ op[p] = "transaction"
        /\ tf[p].rollbackError # NoError
        /\ tf[p].acquired = 1 /\ tf[p].releases = 1
        /\ pc[q] = "returned" /\ op[q] = "transaction"
        /\ tf[q].caught.type = "beginTransaction" /\ tf[q].rollbackError = NoError
        /\ tf[q].acquired = 1 /\ tf[q].releases = 1

(* ------------------------- the success path --------------------------- *)
\* how often each step of transaction() has been taken by p: acquire,
\* beginTransaction, unit of work, commit, rollback, release
StepsTaken(p) ==
    <<tf[p].acquired, tf[p].begins, tf[p].uows, tf[p].commits, tf[p].rollbacks,
      tf[p].releases>>

\* C27: on the success path transaction() performs its steps in the order
\* acquire connection, beginTransaction, unit of work, commit, release;
\* rollback is never called, the value returned is the unit of work's
\* result, and the transaction's token stays in activeOperations for the
\* whole span from before the acquire until after the release.
C27_SuccessPathOrder ==
    \A p \in Procs :
        (tf[p].kind = "plain" /\ tf[p].caught = NoError) =>
            CASE pc[p] = "tx_getconn" ->
                   StepsTaken(p) = <<0, 0, 0, 0, 0, 0>> /\ tf[p].id \in activeOperations
              [] pc[p] = "tx_begin" ->
                   StepsTaken(p) = <<1, 1, 0, 0, 0, 0>> /\ tf[p].id \in activeOperations
              [] pc[p] = "tx_uow" ->
                   StepsTaken(p) = <<1, 1, 1, 0, 0, 0>> /\ tf[p].id \in activeOperations
              [] pc[p] = "tx_commit" ->
                   StepsTaken(p) = <<1, 1, 1, 1, 0, 0>> /\ tf[p].id \in activeOperations
              [] pc[p] = "returned" /\ out[p].status = "ok" ->
                   /\ StepsTaken(p) = <<1, 1, 1, 1, 0, 1>>
                   /\ out[p] = Returned([value |-> "callback result"])
                   /\ out[p] = tf[p].result
                   /\ tf[p].id \notin activeOperations
              [] OTHER -> pc[p] = "returned" /\ tf[p].acquired = 0

\* a transaction() that returned its unit of work's result
C27_Witness ==
    \E p \in Procs :
        /\ pc[p] = "returned" /\ op[p] = "transaction"
        /\ out[p] = Returned([value |-> "callback result"])
        /\ StepsTaken(p) = <<1, 1, 1, 1, 0, 1>>
        /\ tf[p].id \notin activeOperations

Stepping(p) == pc'[p] # pc[p] \/ qf'[p] # qf[p]

\* pool.execute resolved at the last attempt of the call this frame records:
\* the call returned its rows, or the log line after it threw
AttemptSucceeded(frame) ==
    frame.result.status = "ok" \/ frame.raised.type = "TypeError"

\* C29: if attempts 0..j-1 of a query() fail with retryable errors and
\* attempt j succeeds, with j <= maxRetries and skipRetry not set, query()
\* returns the result of attempt j after exactly j+1 pool.execute attempts
\* and makes no further attempt; failedQueries has grown by exactly j, which
\* for the first call made on an instance leaves it at j.
C29_SucceedsAfterRetries ==
    \A p \in Procs :
        (QueryDone(p) /\ ~qf[p].skipRetry /\ AttemptSucceeded(qf[p])) =>
            \E j \in 0..qf[p].maxRetries :
                /\ out[p] = Returned(Rows(j))
                /\ qf[p].execs = j + 1
                /\ qf[p].sleeps = j
                /\ pc[p] = "returned"
                /\ (nCalls = 1 => metrics.failedQueries = j)

\* a second query() call that succeeded at its third attempt, after a first
\* call that had failed
C29_Witness ==
    \E p \in Procs :
        /\ QueryDone(p) /\ ~qf[p].skipRetry /\ nCalls = 2
        /\ qf[p].maxRetries = 2
        /\ out[p] = Returned(Rows(2))
        /\ qf[p].execs = 3
        /\ metrics.failedQueries > 2

(* ------------------------------ the signals ---------------------------- *)
\* a drain is still waiting, or its pool.end() has not settled
ShutdownUnfinished == \E q \in Callers : pc[q] \in {"gs_sleep", "gs_end"}

\* C30: on SIGTERM, SIGINT or SIGHUP the process exits only after
\* gracefulShutdown has finished draining (or timed out) and the pool has
\* been closed; this holds for every sequence of signals, including a second
\* signal that arrives while the first shutdown is still draining.
C30_ExitOnlyAfterShutdown ==
    \A h \in Handlers :
        pc[h] = "exited" =>
            /\ hist.drains = 1 /\ hist.shutdownEnds = 1
            /\ pool.closed
            /\ ~ShutdownUnfinished

(* ------------------------- the connection counters -------------------- *)
\* C31: the connection counters stay unsigned and ordered in every
\* reachable state: for every sequence of the pool's 'connection' and
\* 'release' events (a connection is created once but may be acquired and
\* released many times), 0 <= activeConnections <= totalConnections.
C31_ConnectionCountersOrdered ==
    /\ 0 <= metrics.activeConnections
    /\ metrics.activeConnections <= metrics.totalConnections

(* ------------------------------ avgQueryTime --------------------------- *)
\* the pool.execute of p's query() resolves in this step
AttemptSucceeds(p) ==
    /\ pc[p] = "q_exec"
    /\ qf'[p].result.status = "ok" \/ qf'[p].raised.type = "TypeError"

\* C32: avgQueryTime is a two-point running mean updated only by successful
\* attempts: after a successful attempt of duration d it equals d if it was
\* 0 before, otherwise (previous + d) / 2; failed attempts and rejected
\* calls leave it unchanged.
C32_TwoPointRunningMean ==
    [][\A p \in Procs :
          Stepping(p) =>
              IF AttemptSucceeds(p)
              THEN \E d \in Durations :
                      IF metrics.avgQueryTime = 0
                      THEN metrics'.avgQueryTime = d
                      ELSE 2 * metrics'.avgQueryTime = metrics.avgQueryTime + d
              ELSE metrics'.avgQueryTime = metrics.avgQueryTime]_vars

\* the mean of a first query that took a while and a second that took none,
\* after which an attempt has failed
C32_Witness ==
    /\ metrics.avgQueryTime > 0
    /\ 2 * metrics.avgQueryTime \in Durations
    /\ metrics.failedQueries > 0

(* ---------------------------- operation ids --------------------------- *)
\* the ids of the admitted operations of p that have not finished
IdsOf(p) ==
    (IF qf[p].active THEN {qf[p].id} ELSE {})
        \cup (IF mf[p].active THEN {mf[p].id} ELSE {})
        \cup (IF tf[p].kind \in {"plain", "migration"} /\ pc[p] \notin {"idle", "returned"}
              THEN {tf[p].id} ELSE {})

\* C33: operation tokens are unique per call (two draws of Math.random() in
\* one millisecond are taken to differ), so activeOperations is non-empty in
\* every state where at least one admitted query, multiQuery or transaction
\* has not yet finished: the completion of one operation never removes the
\* record of another operation that is still in flight.
C33_InFlightIsRecorded ==
    /\ \A p \in Procs : IdsOf(p) \subseteq activeOperations
    /\ \A p, q \in Procs : p # q => IdsOf(p) \cap IdsOf(q) = {}
    /\ (\E p \in Procs : IdsOf(p) # {}) => activeOperations # {}

\* one client's operation has completed while the other's, of the same
\* kind, is still in flight
C33_Witness ==
    \E p, q \in Procs :
        /\ p # q /\ op[p] = op[q]
        /\ pc[p] = "returned" /\ out[p].status = "ok"
        /\ IdsOf(q) # {}
        /\ activeOperations = IdsOf(q)

(* ------------------------- the query counters ------------------------- *)
\* the pool.execute attempts of the call this frame records that have
\* failed: all it made, less the one in flight and the one that succeeded
FailedAttempts(frame, label) ==
    frame.execs - (IF label = "q_exec" THEN 1 ELSE 0)
                - (IF AttemptSucceeded(frame) THEN 1 ELSE 0)

\* C34: in every reachable state failedQueries <= totalQueries: both
\* counters never decrease, failedQueries grows by exactly one per failed
\* pool.execute attempt and by nothing else, and every attempt is counted in
\* totalQueries before its outcome is known.  During and after the first
\* call made on an instance the counters are therefore the attempts made and
\* the attempts that failed.
C34_FailedCountsFailedAttempts ==
    /\ 0 <= metrics.failedQueries
    /\ metrics.failedQueries <= metrics.totalQueries
    /\ \A p \in Procs :
          (nCalls = 1 /\ op[p] = "query" /\ pc[p] \in {"q_exec", "q_sleep", "returned"}) =>
              /\ metrics.totalQueries = qf[p].execs
              /\ metrics.failedQueries = FailedAttempts(qf[p], pc[p])

(* --------------------------- after the drain -------------------------- *)
\* a gracefulShutdown() has called close() and nothing is tracked: its drain
\* saw activeOperations empty, or what it gave up waiting for has finished
Drained == hist.shutdownEnds >= 1 /\ activeOperations = {}

\* p issues pool.execute or pool.getConnection in this step
IssuesToPool(p) ==
    \/ qf'[p].execs > qf[p].execs
    \/ pc'[p] # pc[p] /\ pc'[p] \in {"tx_getconn", "gc_get"}

\* C35: when the drain of gracefulShutdown completes cleanly
\* (activeOperations reached zero before the timeout), this layer issues no
\* pool.execute and no pool.getConnection after the pool's end() has been
\* called: the zero check and the call of close() are one step, after which
\* nothing is admitted, nothing becomes tracked and nothing goes to the pool.
C35_NothingIssuedAfterCleanDrain ==
    [][Drained => /\ Drained'
                  /\ \A p \in Procs : ~IssuesToPool(p)]_vars

\* a query() has run and finished, and a gracefulShutdown() called with time
\* to wait has found nothing to wait for and called pool.end()
C35_Witness ==
    \E q \in Procs :
        /\ Drained /\ pool.closed
        /\ gf[q].ends = 1 /\ gf[q].sleeps = 0 /\ gf[q].timeout > 0
        /\ metrics.totalQueries > 0

(* ---------------------- overlapping shutdown calls -------------------- *)
\* C36: whenever any gracefulShutdown() call resolves - the first call or a
\* later overlapping call - the pool's end() has already completed, so a
\* caller that awaits gracefulShutdown() may rely on the pool being closed.
C36_ResolvedMeansPoolEnded ==
    \A p \in Procs :
        (op[p] = "gracefulShutdown" /\ pc[p] = "returned" /\ out[p].status = "ok") =>
            /\ pool.closed
            /\ ~ShutdownUnfinished

(* ------------------------------- close() ------------------------------ *)
\* only close() has been called for the pool's end(): no shutdown has begun
ClosedAlone == pool.closed /\ hist.drains = 0

\* p's call of query, multiQuery, transaction or getConnection in this step
\* is turned away at a shutdown gate
TurnedAway(p) ==
    /\ pc[p] = "idle" /\ pc'[p] # "idle"
    /\ op'[p] \in {"query", "multiQuery", "transaction", "getConnection"}
    /\ out'[p].status = "threw" /\ out'[p].err.type = "shutdown"

\* C37: close() is immediate and non-draining: it calls the pool's end()
\* without waiting for activeOperations to empty and leaves isShuttingDown,
\* activeOperations and the metrics unchanged, so after close() alone the
\* shutdown gate is still open and query, multiQuery, transaction and
\* getConnection calls are still admitted to the pool.
C37_CloseDoesNotDrain ==
    /\ [][\A p \in Procs :
            (pc[p] = "idle" /\ pc'[p] # "idle" /\ op'[p] = "close") =>
                /\ pool'.ends = pool.ends + 1 /\ pool'.closed
                /\ pc'[p] = "cl_end"
                /\ UNCHANGED <<isShuttingDown, activeOperations, metrics>>]_vars
    /\ [][\A p \in Procs :
            (pc[p] = "cl_end" /\ pc'[p] # "cl_end") =>
                UNCHANGED <<isShuttingDown, activeOperations, metrics>>]_vars
    /\ [](ClosedAlone => ~isShuttingDown)
    /\ [][ClosedAlone => \A p \in Procs : ~TurnedAway(p)]_vars

\* a close() has resolved while a query() is in flight, admitted and tracked,
\* its pool.execute issued to the pool that has ended
C37_Witness ==
    \E p, q \in Procs :
        /\ op[q] = "close" /\ pc[q] = "returned" /\ out[q].status = "ok"
        /\ ClosedAlone /\ ~isShuttingDown
        /\ qf[p].active /\ qf[p].refused /\ pc[p] = "q_exec"
        /\ qf[p].id \in activeOperations

(* ----------------------- the error query() rejects with --------------- *)
\* C38: every query() call that passes the shutdown gate and validation
\* performs at least one pool.execute attempt, and when it rejects, it
\* rejects with an error that a pool.execute attempt raised; this holds for
\* every value of the per-call maxRetries option, including negative values.
C38_RejectsWithPoolError ==
    \A p \in Procs :
        (op[p] = "query" /\ pc[p] = "returned" /\ QueryDone(p)) =>
            /\ qf[p].execs >= 1
            /\ out[p].status = "threw" =>
                  /\ out[p].err.type = "pool.execute"
                  /\ out[p].err = qf[p].raised

(* ----------------------------- termination ---------------------------- *)
\* C39: every admitted query() terminates, provided each pool.execute call
\* and each backoff timer eventually completes: it finishes after at most
\* maxRetries+1 attempts, and its token is eventually removed from
\* activeOperations, so a drain that waits only on queries eventually
\* observes zero active operations.
C39_QueriesTerminate ==
    /\ [](\A p \in Procs :
            qf[p].execs <= (IF qf[p].maxRetries < 0 THEN 0 ELSE qf[p].maxRetries + 1))
    /\ \A p \in Procs : qf[p].active ~> (~qf[p].active /\ qf[p].id \notin activeOperations)
    /\ isShuttingDown ~> [](activeOperations = {})

\* a query() that was retried has finished while a drain was waiting for it,
\* and the drain has seen activeOperations empty
C39_Witness ==
    \E p, q \in Procs :
        /\ QueryDone(p) /\ qf[p].sleeps >= 1 /\ qf[p].execs = qf[p].maxRetries + 1
        /\ gf[q].sleeps >= 1 /\ gf[q].ends = 1
        /\ activeOperations = {}

====
